---- MODULE Spec2Model ----
(***************************************************************************)
(* State-machine model of reth-light's snapshotted staged sync:            *)
(*   src/src/sync/mod.rs          run_sync_with_snapshots (orchestrator)   *)
(*   src/src/sync/headers_sync.rs HeadersSync                              *)
(*   src/src/sync/bodies_sync.rs  BodiesSync                               *)
(*   src/src/sync/state_sync.rs   StateSync                                *)
(*                                                                         *)
(* The three MDBX environments are modelled by their committed contents.   *)
(* A write transaction that is dropped without commit() is aborted (the    *)
(* Drop impl of the MDBX transaction), so only Database::update and an     *)
(* explicit tx.commit() change the committed contents.                     *)
(*                                                                         *)
(* Block numbers live in a window base .. base+MaxBlock.  base = 0 is a    *)
(* chain that starts at genesis; base > 0 stands for databases restored    *)
(* from snapshots taken at or after block `base`: the rows of blocks below *)
(* base are present in every table and are never read individually (their  *)
(* total difficulty and transaction count enter as closed-form sums).      *)
(***************************************************************************)
EXTENDS Integers, Sequences, FiniteSets, TLC

\* ------------------------------------------------------------------ bounds
MaxBlock == 3          \* window of block numbers: base .. base+MaxBlock
BaseBack == 2          \* the restored window starts BaseBack blocks before a snapshot boundary
MaxBatch == 2          \* largest batch a downloader delivers
MaxRuns == 2           \* orchestrator invocations (the first run and restarts)
commit_threshold == 1  \* StateSync::commit_threshold (configuration)
MaxHalves == 5         \* the state-loop runs reach up to MaxHalves half snapshot intervals

\* ------------------------------------------------------ program constants
snapshot_interval == 100000

None == 0 - 1          \* Option::None of a progress marker / an absent value

Min(a, b) == IF a <= b THEN a ELSE b
Max(a, b) == IF a >= b THEN a ELSE b
SetMax(S) == CHOOSE x \in S : \A y \in S : y <= x
SetMin(S) == CHOOSE x \in S : \A y \in S : x <= y

\* Option<u64>::unwrap_or_default()
UnwrapOrDefault(m) == IF m = None THEN 0 ELSE m

\* ------------------------------------------------- the canonical chain
\* The chain the network serves (sync targets a fixed tip: no reorgs).
Bases == {0, snapshot_interval - BaseBack}
Window(b) == b .. (b + MaxBlock)

BlockHash(n) == 3 * n + 1
Difficulty(n) == 1 + (n % 2)
TxCountOf(n) == n % 3
HasOmmers(n) == n % 2 = 1
HasWithdrawals(n) == n % 4 = 2

ChainHeader(n) ==
    [number |-> n,
     parent_hash |-> IF n = 0 THEN 0 ELSE BlockHash(n - 1),
     difficulty |-> Difficulty(n)]

\* Header::hash_slow / SealedHeader::hash of a chain header
HashOf(header) == 3 * header.number + 1

\* Header::is_empty: no transactions, no ommers, no withdrawals
IsEmptyBlock(n) == TxCountOf(n) = 0 /\ ~HasOmmers(n) /\ ~HasWithdrawals(n)

\* sums over the blocks below the window (closed forms of the definitions above)
TxBelow(b) == 3 * (b \div 3) + (IF b % 3 = 2 THEN 1 ELSE 0)
TdBelow(b) == b + (b \div 2)

RECURSIVE TxSum(_, _)
TxSum(lo, hi) == IF hi < lo THEN 0 ELSE TxCountOf(hi) + TxSum(lo, hi - 1)
RECURSIVE TdSum(_, _)
TdSum(lo, hi) == IF hi < lo THEN 0 ELSE Difficulty(hi) + TdSum(lo, hi - 1)

\* first transaction id of block n, and total difficulty through block n
TxStartOf(b, n) == TxBelow(b) + TxSum(b, n - 1)
TdOf(b, n) == TdBelow(b) + TdSum(b, n)

VARIABLES
    base,        \* first block number of the window
    tip,         \* Tip { hash, number }
    headersDb,   \* committed headers environment: Headers, CanonicalHeaders, SyncStage[HEADERS]
    bodiesDb,    \* committed bodies environment: BlockBodies, Transactions, BlockOmmers, BlockWithdrawals, SyncStage[BODIES]
    stateDb,     \* committed state environment: plain state (as the log of applied blocks), SyncStage[EXECUTION]
    remote,      \* RemoteStore: per prefix, the snapshots stored
    pc,          \* position of run_sync_with_snapshots
    orch,        \* locals of run_sync_with_snapshots
    hs,          \* locals of HeadersSync::run
    bs,          \* locals of BodiesSync::run and the write transactions it opened
    ss,          \* locals of StateSync::run
    snap,        \* locals of save_single_snapshot / the state snapshot upload
    err,         \* the error run_sync_with_snapshots returned (NoErr while running or Ok)
    runs,        \* number of orchestrator invocations so far
    di,          \* locals of DatabaseInitializer::init and the state of the local file it works on
    plain,       \* PlainAccountState and PlainStorageState row by row, under apply_state_changes
    bucket,      \* a remote store byte by byte: its kind, the stored objects, the last call and its result
    hist         \* what the current invocation did: the stages entered (order) and returned Ok (done),
                 \* the progress at its start, the state sub-ranges completed, the uploads made;
                 \* prev_done: the stages that returned Ok in the invocation before;
                 \* open: the environments on which a write transaction is open

vars == <<base, tip, headersDb, bodiesDb, stateDb, remote, pc, orch, hs, bs, ss, snap, err, runs, di, plain, bucket, hist>>

\* ------------------------------------------------------- database images
\* rows base..h of Headers and CanonicalHeaders, marker m
HeadersImage(b, h, m) ==
    [headers |-> [n \in b..h |-> ChainHeader(n)],
     canonical |-> [n \in b..h |-> BlockHash(n)],
     stage |-> m]

\* rows base..h of BlockBodies with their transactions, marker m;
\* `missing` is a transaction id the table lacks (None: the table is complete)
BodiesImage(b, h, m, table, missing) ==
    [bodies |-> [n \in b..h |-> [start_tx_id |-> TxStartOf(b, n), tx_count |-> TxCountOf(n)]],
     transactions |-> (TxStartOf(b, b) .. (TxStartOf(b, h + 1) - 1)) \ {missing},
     ommers |-> {n \in (b + 1)..h : HasOmmers(n)},
     withdrawals |-> {n \in (b + 1)..h : HasWithdrawals(n)},
     has_sync_stage |-> table,
     stage |-> m]

\* plain state after the blocks base+1..h were applied in order, marker m.
\* accounts: the accounts of the genesis allocation, "genesis" as ensure_genesis
\* wrote them, "modified" once blocks were executed on top of them
StateImage(b, h, m) ==
    [applied |-> [k \in 1..(h - b) |-> [number |-> b + k, td |-> TdOf(b, b + k)]],
     accounts |-> IF h > 0 THEN "modified" ELSE "genesis",
     stage |-> m]

\* a freshly created database has no marker; a restored one carries its progress
MarkerAt(b, h) == IF b = 0 /\ h = 0 THEN None ELSE h

NoGap == [kind |-> "none"]
NoErr == [error |-> "none", at |-> None]
NoSnap == [prefix |-> "", progress |-> 0, listing |-> {}, cleanup |-> FALSE, ret |-> ""]

Orch0 == [last_headers_progress |-> 0, last_bodies_progress |-> 0,
          sync_from |-> 0, sync_until |-> 0]
Hs0 == [headers_progress |-> 0, gap |-> NoGap]
Bs0 == [latest_block_number |-> 0, next |-> 0, txs |-> <<>>]
\* Account { nonce: 0, balance: 0, bytecode_hash: None }
EmptyAccount == [nonce |-> 0, balance |-> 0, bytecode_hash |-> "None"]

\* AccountInfoChangeSet::NoChange (it carries no account: `new` is a filler)
NoChange == [kind |-> "NoChange", new |-> EmptyAccount]

\* the plain-state tables before anything is known of them (the specifications
\* of the stages keep them abstract, as stateDb.accounts)
Plain0 == [accounts |-> <<>>, storage |-> {}, block |-> 0, last |-> NoChange,
           op |-> "none", zeroed |-> FALSE,
           matched |-> TRUE, latest |-> {}, overwrote |-> FALSE]

\* byte strings: what they hold, and whether they are a gzip stream of it
NoBlob == [gz |-> FALSE, data |-> "none"]
Database == [gz |-> FALSE, data |-> "database"]
Text == [gz |-> FALSE, data |-> "text"]

\* a remote store before any call (the specifications of the stages keep the
\* stored snapshots as database images, in `remote`)
NoCall == [op |-> "none", key |-> "", fault |-> "none",
           result |-> [kind |-> "None", value |-> NoBlob]]
Bucket0 == [kind |-> "digitalocean", objects |-> <<>>, last |-> NoCall]

Di0 == [prefix |-> "", progress |-> 0, snapshots |-> {}, best |-> None,
        contents |-> None, before |-> None, retrieved |-> FALSE, restored |-> FALSE, file |-> "complete",
        mismatch |-> [expected |-> None, actual |-> None]]
Ss0 == [range_end |-> 0, start_progress |-> 0, progress |-> 0, td |-> 0, writers |-> {}]

Init ==
    /\ base \in Bases
    /\ \E h0 \in Window(base), b0 \in Window(base), s0 \in Window(base),
          t \in Window(base), old \in BOOLEAN, table \in BOOLEAN :
        /\ t >= h0
        /\ table \/ (base = 0 /\ b0 = 0)
        /\ tip = [hash |-> BlockHash(t), number |-> t]
        /\ headersDb = HeadersImage(base, h0, MarkerAt(base, h0))
        /\ \E missing \in {None} \cup (TxStartOf(base, base) .. (TxStartOf(base, b0 + 1) - 1)) :
              bodiesDb = BodiesImage(base, b0, IF table THEN MarkerAt(base, b0) ELSE None,
                                     table, missing)
        /\ stateDb = StateImage(base, s0, MarkerAt(base, s0))
        /\ remote = IF old
                    THEN [headers |-> {[progress |-> base, image |-> HeadersImage(base, base, MarkerAt(base, base))]},
                          bodies |-> {[progress |-> base, image |-> BodiesImage(base, base, MarkerAt(base, base), TRUE, None)]},
                          state |-> {[progress |-> base, image |-> StateImage(base, base, MarkerAt(base, base))]}]
                    ELSE [headers |-> {}, bodies |-> {}, state |-> {}]
        /\ hist = [order |-> <<>>,
                   start |-> [headers |-> h0, bodies |-> b0, state |-> s0],
                   ranges |-> <<>>,
                   uploads |-> {},
                   done |-> {},
                   prev_done |-> {}, open |-> {}]
    /\ pc = "start"
    /\ runs = 1
    /\ orch = Orch0 /\ hs = Hs0 /\ bs = Bs0 /\ ss = Ss0
    /\ snap = NoSnap
    /\ err = NoErr
    /\ di = Di0
    /\ plain = Plain0
    /\ bucket = Bucket0

\* `db.tx_mut()` / the start of `db.update(..)` on the environments envs
WriteTxOpen(open, envs) == open \cup envs

\* a faulty variant of the end of a scope: the transactions stay open
WriteTxLeak(open, envs) == open

\* `tx.commit()`, the end of `db.update(..)`, or `tx` going out of scope (also
\* through `?`): the write transactions on envs are over
WriteTxClose(open, envs) == open \ envs

\* the orchestrator returns Err(e): every `?` of run_sync_with_snapshots
Fail(e, at) ==
    /\ pc' = "err"
    /\ err' = [error |-> e, at |-> at]

\* ------------------------------------------------------------ HeadersSync
\* SyncTarget::Tip(hash) / SyncTarget::Gap(header); `tip` is SyncTarget::tip():
\* the hash itself, or the parent hash of the gap header
TargetTip(tip_hash) == [type |-> "Tip", tip |-> tip_hash, number |-> None]
TargetGap(header) == [type |-> "Gap", tip |-> header.parent_hash, number |-> header.number]

\* a faulty variant of get_sync_gap: any later canonical header ends the search,
\* adjacent or not
GetSyncGapIgnoringAdjacency(db, stage_progress, tip_hash) ==
    IF stage_progress \notin DOMAIN db.canonical
    THEN [kind |-> "err", error |-> "ProviderError::CanonicalHeader"]
    ELSE IF {n \in DOMAIN db.canonical : n > stage_progress} = {}
    THEN [kind |-> "gap",
          local_head |-> [number |-> stage_progress, hash |-> db.canonical[stage_progress]],
          target |-> TargetTip(tip_hash)]
    ELSE NoGap

GetSyncGap(db, stage_progress, tip_hash) ==
    IF stage_progress \notin DOMAIN db.canonical
    THEN [kind |-> "err", error |-> "ProviderError::CanonicalHeader"]
    ELSE IF stage_progress \notin DOMAIN db.headers
    THEN [kind |-> "err", error |-> "ProviderError::Header"]
    ELSE LET local_head == [number |-> stage_progress, hash |-> db.canonical[stage_progress]]
             later == {n \in DOMAIN db.canonical : n > stage_progress}
         IN  IF later = {}
             THEN [kind |-> "gap", local_head |-> local_head, target |-> TargetTip(tip_hash)]
             ELSE LET next_num == SetMin(later)
                  IN  IF next_num \notin DOMAIN db.headers
                      THEN [kind |-> "err", error |-> "ProviderError::Header"]
                      ELSE IF stage_progress + 1 # next_num
                      THEN [kind |-> "gap", local_head |-> local_head,
                            target |-> TargetGap(db.headers[next_num])]
                      ELSE NoGap

\* SyncGap::is_closed: the target's tip is the local head
IsClosed(gap) == gap.target.tip = gap.local_head.hash

\* ReverseHeadersDownloader: the highest block of the request. For a Tip target it
\* is the block with that hash, for a Gap target the parent of the gap header.
RequestTop(gap) ==
    IF gap.target.type = "Tip"
    THEN (gap.target.tip - 1) \div 3
    ELSE gap.target.number - 1

\* the block numbers of one delivered batch: the k highest blocks not yet delivered
HeaderBatch(gap, k) == (RequestTop(gap) - k + 1) .. RequestTop(gap)

\* the write closure of HeadersSync::run: cursor.insert of every header of the batch
InsertHeaders(db, batch) ==
    [db EXCEPT !.headers = [n \in batch |-> ChainHeader(n)] @@ db.headers,
               !.canonical = [n \in batch |-> HashOf(ChainHeader(n))] @@ db.canonical]

\* a faulty variant of get_last_header_number: `cursor.first()` for `cursor.last()`
GetFirstHeaderNumber(db) == SetMin(DOMAIN db.canonical)

\* HeadersSync::get_last_header_number
GetLastHeaderNumber(db) == SetMax(DOMAIN db.canonical)

\* run_sync_with_snapshots reads the headers progress and calls HeadersSync::run,
\* which reads the progress once, before its loop
OrchStart ==
    /\ pc = "start"
    /\ orch' = [orch EXCEPT !.last_headers_progress = UnwrapOrDefault(headersDb.stage)]
    /\ hs' = [headers_progress |-> UnwrapOrDefault(headersDb.stage), gap |-> NoGap]
    /\ hist' = [hist EXCEPT !.order = Append(@, "headers")]
    /\ pc' = "hdr_gap"
    /\ UNCHANGED <<bucket, plain, di, base, tip, headersDb, bodiesDb, stateDb, remote, bs, ss, snap, err, runs>>

\* `while let Some(gap) = self.get_sync_gap(headers_progress, tip)?`
HeadersGetSyncGap ==
    /\ pc = "hdr_gap"
    /\ LET g == GetSyncGap(headersDb, hs.headers_progress, tip.hash)
       IN  \/ /\ g.kind = "err"
              /\ Fail(g.error, hs.headers_progress)
              /\ UNCHANGED hs
           \/ /\ g.kind = "none"
              /\ pc' = "hdr_save"
              /\ hs' = [hs EXCEPT !.gap = NoGap]
              /\ UNCHANGED err
           \/ /\ g.kind = "gap"
              /\ pc' = "hdr_check"
              /\ hs' = [hs EXCEPT !.gap = g]
              /\ UNCHANGED err
    /\ UNCHANGED <<bucket, plain, di, base, tip, headersDb, bodiesDb, stateDb, remote, orch, bs, ss, snap, runs, hist>>

\* `if !gap.is_closed() { .. }` with a closed gap: the body is skipped and the
\* loop evaluates the gap again
HeadersGapClosed ==
    /\ pc = "hdr_check"
    /\ IsClosed(hs.gap)
    /\ pc' = "hdr_gap"
    /\ UNCHANGED <<bucket, plain, di, base, tip, headersDb, bodiesDb, stateDb, remote, orch, hs, bs, ss, snap, err, runs, hist>>

\* an open gap: update_sync_gap, await the next batch, insert it and commit
HeadersDownload ==
    /\ pc = "hdr_check"
    /\ ~IsClosed(hs.gap)
    /\ \E k \in 1..MaxBatch :
        /\ k <= RequestTop(hs.gap) - hs.gap.local_head.number
        /\ LET batch == HeaderBatch(hs.gap, k)
           IN  IF batch \cap DOMAIN headersDb.headers # {}
               THEN Fail("DatabaseError::KeyExist", None) /\ UNCHANGED headersDb
               ELSE /\ headersDb' = InsertHeaders(headersDb, batch)
                    /\ pc' = "hdr_gap"
                    /\ UNCHANGED err
    /\ hist' = [hist EXCEPT !.open = WriteTxClose(WriteTxOpen(@, {"headers"}), {"headers"})]
    /\ UNCHANGED <<bucket, plain, di, base, tip, bodiesDb, stateDb, remote, orch, hs, bs, ss, snap, runs>>

\* the header stream yields an empty batch: the write closure inserts nothing
\* and commits, and the loop evaluates the gap again
HeadersEmptyBatch ==
    /\ pc = "hdr_check"
    /\ ~IsClosed(hs.gap)
    /\ headersDb' = InsertHeaders(headersDb, {})
    /\ pc' = "hdr_gap"
    /\ hist' = [hist EXCEPT !.open = WriteTxClose(WriteTxOpen(@, {"headers"}), {"headers"})]
    /\ UNCHANGED <<bucket, plain, di, base, tip, bodiesDb, stateDb, remote, orch, hs, bs, ss, snap, err, runs>>

\* the header stream ends: `.ok_or(eyre!("channel closed"))?`
HeadersChannelClosed ==
    /\ pc = "hdr_check"
    /\ ~IsClosed(hs.gap)
    /\ Fail("channel closed", None)
    /\ UNCHANGED <<bucket, plain, di, base, tip, headersDb, bodiesDb, stateDb, remote, orch, hs, bs, ss, snap, runs, hist>>

\* after the loop: save HEADERS = last canonical header number, return Ok
HeadersSave ==
    /\ pc = "hdr_save"
    /\ headersDb' = [headersDb EXCEPT !.stage = GetLastHeaderNumber(headersDb)]
    /\ pc' = "hdr_done"
    /\ hist' = [hist EXCEPT !.done = @ \cup {"headers"},
                             !.open = WriteTxClose(WriteTxOpen(@, {"headers"}), {"headers"})]
    /\ UNCHANGED <<bucket, plain, di, base, tip, bodiesDb, stateDb, remote, orch, hs, bs, ss, snap, err, runs>>

\* ---------------------------------------------------------- snapshots
\* the database file a prefix's snapshot is taken of
ImageOf(prefix) ==
    CASE prefix = "headers" -> headersDb
      [] prefix = "bodies" -> bodiesDb
      [] prefix = "state" -> stateDb

\* `if new_headers_progress > last_headers_progress { save_single_snapshot(..) }`
OrchAfterHeaders ==
    /\ pc = "hdr_done"
    /\ LET new_headers_progress == UnwrapOrDefault(headersDb.stage)
       IN  IF new_headers_progress > orch.last_headers_progress
           THEN /\ pc' = "snap_save"
                /\ snap' = [prefix |-> "headers", progress |-> new_headers_progress,
                            listing |-> {}, cleanup |-> TRUE, ret |-> "bod_begin"]
           ELSE /\ pc' = "bod_begin"
                /\ UNCHANGED snap
    /\ UNCHANGED <<bucket, plain, di, base, tip, headersDb, bodiesDb, stateDb, remote, orch, hs, bs, ss, err, runs, hist>>

\* remote.save(key, path/mdbx.dat): stores the current database file under the key
RemoteSave(store, prefix, progress, image) ==
    [store EXCEPT ![prefix] =
        {e \in @ : e.progress # progress} \cup {[progress |-> progress, image |-> image]}]

\* remote.delete(key)
RemoteDelete(store, prefix, progress) ==
    [store EXCEPT ![prefix] = {e \in @ : e.progress # progress}]

SnapshotSave ==
    /\ pc = "snap_save"
    /\ \/ /\ remote' = RemoteSave(remote, snap.prefix, snap.progress, ImageOf(snap.prefix))
          /\ hist' = [hist EXCEPT !.uploads = @ \cup {<<snap.prefix, snap.progress>>}]
          /\ pc' = IF snap.cleanup THEN "snap_list" ELSE snap.ret
          /\ UNCHANGED err
       \/ /\ Fail("RemoteStoreError::save", snap.progress)
          /\ UNCHANGED <<remote, hist>>
    /\ UNCHANGED <<bucket, plain, di, base, tip, headersDb, bodiesDb, stateDb, orch, hs, bs, ss, snap, runs>>

\* `remote.list(Some(prefix))`
SnapshotList ==
    /\ pc = "snap_list"
    /\ \/ /\ snap' = [snap EXCEPT !.listing = {e.progress : e \in remote[snap.prefix]}]
          /\ pc' = "snap_delete"
          /\ UNCHANGED err
       \/ /\ Fail("RemoteStoreError::list", snap.progress)
          /\ UNCHANGED snap
    /\ UNCHANGED <<bucket, plain, di, base, tip, headersDb, bodiesDb, stateDb, remote, orch, hs, bs, ss, runs, hist>>

\* a faulty variant of the clean-up test: the condition inverted
KeyDiffersFromSnapshotKey(entry, progress) == entry # progress

\* `key.ends_with(&snapshot_key)` for the keys "{prefix}{entry}.dat.gz" and
\* "{prefix}{progress}.dat.gz" of one prefix
KeyEndsWithSnapshotKey(entry, progress) == entry = progress

\* one iteration of the clean-up loop: delete the entry unless its key ends with
\* the key just saved
SnapshotDelete ==
    /\ pc = "snap_delete"
    /\ IF snap.listing = {}
       THEN /\ pc' = snap.ret
            /\ snap' = NoSnap
            /\ UNCHANGED <<remote, err>>
       ELSE LET entry == SetMin(snap.listing)
            IN  IF KeyEndsWithSnapshotKey(entry, snap.progress)
                THEN /\ snap' = [snap EXCEPT !.listing = @ \ {entry}]
                     /\ UNCHANGED <<remote, pc, err>>
                ELSE \/ /\ remote' = RemoteDelete(remote, snap.prefix, entry)
                        /\ snap' = [snap EXCEPT !.listing = @ \ {entry}]
                        /\ UNCHANGED <<pc, err>>
                     \/ /\ Fail("RemoteStoreError::delete", snap.progress)
                        /\ UNCHANGED <<remote, snap>>
    /\ UNCHANGED <<bucket, plain, di, base, tip, headersDb, bodiesDb, stateDb, orch, hs, bs, ss, runs, hist>>

\* ------------------------------------------------------------- BodiesSync
\* BodiesSync::get_last_body: the last row of BlockBodies
GetLastBody(db) == db.bodies[SetMax(DOMAIN db.bodies)]

\* one `for response in bodies` iteration on the write transaction's view:
\* BlockResponse::Empty appends a body with tx_count 0; BlockResponse::Full appends
\* the body, its transactions at consecutive ids, and the ommers / withdrawals rows
\* when the lists are not empty
WriteBlock(view, n, current_tx_id) ==
    IF IsEmptyBlock(n)
    THEN [view EXCEPT !.bodies = (n :> [start_tx_id |-> current_tx_id, tx_count |-> 0]) @@ @]
    ELSE [view EXCEPT
            !.bodies = (n :> [start_tx_id |-> current_tx_id, tx_count |-> TxCountOf(n)]) @@ @,
            !.transactions = @ \cup (current_tx_id .. (current_tx_id + TxCountOf(n) - 1)),
            !.ommers = IF HasOmmers(n) THEN @ \cup {n} ELSE @,
            !.withdrawals = IF HasWithdrawals(n) THEN @ \cup {n} ELSE @]

RECURSIVE WriteBodies(_, _, _, _)
WriteBodies(view, lo, hi, current_tx_id) ==
    IF lo > hi
    THEN view
    ELSE WriteBodies(WriteBlock(view, lo, current_tx_id), lo + 1, hi,
                     current_tx_id + (IF IsEmptyBlock(lo) THEN 0 ELSE TxCountOf(lo)))

\* the write transaction of one batch, as it stands after BODIES.save_progress
BodiesBatchTx(db, lo, hi) ==
    LET last_body == GetLastBody(db)
        current_tx_id == last_body.start_tx_id + last_body.tx_count
    IN  [WriteBodies(db, lo, hi, current_tx_id) EXCEPT !.stage = hi]

\* the end of the loop body of BodiesSync::run: `tx` goes out of scope. The
\* transaction was never committed, so it is aborted and the committed contents
\* of the environment stay as they were.
BodiesTxEnd(db, tx) == db

\* run_sync_with_snapshots reads the bodies progress and calls BodiesSync::run
OrchBodiesBegin ==
    /\ pc = "bod_begin"
    /\ IF ~bodiesDb.has_sync_stage
       THEN /\ Fail("DatabaseError: no SyncStage table", None)
            /\ UNCHANGED <<orch, bs, hist>>
       ELSE LET progress == UnwrapOrDefault(bodiesDb.stage)
            IN  /\ orch' = [orch EXCEPT !.last_bodies_progress = progress]
                /\ hist' = [hist EXCEPT !.order = Append(@, "bodies"),
                                         !.done = IF tip.number <= progress
                                                  THEN @ \cup {"bodies"} ELSE @]
                /\ bs' = [latest_block_number |-> progress, next |-> progress + 1, txs |-> <<>>]
                /\ pc' = IF tip.number <= progress THEN "bod_done" ELSE "bod_loop"
                /\ UNCHANGED err
    /\ UNCHANGED <<bucket, plain, di, base, tip, headersDb, bodiesDb, stateDb, remote, hs, ss, snap, runs>>

\* one iteration of `while latest_block_number < tip.number`
BodiesBatch ==
    /\ pc = "bod_loop"
    /\ \E k \in 1..MaxBatch :
        /\ bs.next + k - 1 <= tip.number
        /\ LET lo == bs.next
               hi == bs.next + k - 1
           IN  IF DOMAIN bodiesDb.bodies = {}
               THEN /\ Fail("ProviderError::BlockBody", 0)
                    /\ UNCHANGED <<bodiesDb, bs, hist>>
               ELSE IF lo <= SetMax(DOMAIN bodiesDb.bodies)
               THEN /\ Fail("DatabaseError::KeyMismatch", lo)
                    /\ UNCHANGED <<bodiesDb, bs, hist>>
               ELSE /\ bodiesDb' = BodiesTxEnd(bodiesDb, BodiesBatchTx(bodiesDb, lo, hi))
                    /\ bs' = [latest_block_number |-> hi, next |-> hi + 1,
                              txs |-> Append(bs.txs, [lo |-> lo, hi |-> hi,
                                                      view |-> BodiesBatchTx(bodiesDb, lo, hi)])]
                    /\ pc' = IF hi < tip.number THEN "bod_loop" ELSE "bod_done"
                    /\ hist' = [hist EXCEPT
                          !.done = IF hi < tip.number THEN @ ELSE @ \cup {"bodies"},
                          !.open = WriteTxClose(WriteTxOpen(@, {"bodies"}), {"bodies"})]
                    /\ UNCHANGED err
    /\ UNCHANGED <<bucket, plain, di, base, tip, headersDb, stateDb, remote, orch, hs, ss, snap, runs>>

\* the body stream yields an empty batch: after get_last_body and tx_mut,
\* `bodies.first().unwrap()` panics
BodiesEmptyBatch ==
    /\ pc = "bod_loop"
    /\ IF DOMAIN bodiesDb.bodies = {}
       THEN Fail("ProviderError::BlockBody", 0)
       ELSE pc' = "panic" /\ UNCHANGED err
    /\ hist' = [hist EXCEPT !.open = WriteTxClose(WriteTxOpen(@, {"bodies"}), {"bodies"})]
    /\ UNCHANGED <<bucket, plain, di, base, tip, headersDb, bodiesDb, stateDb, remote, orch, hs, bs, ss, snap, runs>>

\* the body stream ends or fails: `try_next().await?.ok_or(eyre!("channel closed"))?`
BodiesChannelClosed ==
    /\ pc = "bod_loop"
    /\ Fail("channel closed", None)
    /\ UNCHANGED <<bucket, plain, di, base, tip, headersDb, bodiesDb, stateDb, remote, orch, hs, bs, ss, snap, runs, hist>>

\* `if new_bodies_progress > last_bodies_progress { save_single_snapshot(..) }`
OrchAfterBodies ==
    /\ pc = "bod_done"
    /\ LET new_bodies_progress == UnwrapOrDefault(bodiesDb.stage)
       IN  IF new_bodies_progress > orch.last_bodies_progress
           THEN /\ pc' = "snap_save"
                /\ snap' = [prefix |-> "bodies", progress |-> new_bodies_progress,
                            listing |-> {}, cleanup |-> TRUE, ret |-> "st_begin"]
           ELSE /\ pc' = "st_begin"
                /\ UNCHANGED snap
    /\ UNCHANGED <<bucket, plain, di, base, tip, headersDb, bodiesDb, stateDb, remote, orch, hs, bs, ss, err, runs, hist>>

\* -------------------------------------------------------------- StateSync
\* StateSync::get_td
GetTd(hdb, b, block) ==
    IF block = 0
    THEN Difficulty(0)
    ELSE LET rows == {n \in DOMAIN hdb.headers : n <= block}
             RECURSIVE Sum(_)
             Sum(S) == IF S = {} THEN 0
                       ELSE LET n == SetMax(S) IN hdb.headers[n].difficulty + Sum(S \ {n})
         IN  TdBelow(b) + Sum(rows)

NoError == [error |-> "none", missing |-> None]

\* the walk over Transactions for one body: NoError, or the error it ends with
TxWalkError(bdb, body) ==
    LET keys == {i \in bdb.transactions : i >= body.start_tx_id}
        RECURSIVE Walk(_, _)
        Walk(index, rest) ==
            IF index >= body.start_tx_id + body.tx_count
            THEN NoError
            ELSE IF rest = {}
            THEN [error |-> "ProviderError::EndOfTransactionTable", missing |-> None]
            ELSE LET tx_index == SetMin(rest)
                 IN  IF tx_index # index
                     THEN [error |-> "ProviderError::TransactionsGap", missing |-> tx_index]
                     ELSE Walk(index + 1, rest \ {tx_index})
    IN  Walk(body.start_tx_id, keys)

\* the body row execute_inner needs for a header of the range
BodyRowPresent(bdb, n) == n \in DOMAIN bdb.bodies

\* StateSync::execute_inner on the chunk lo..hi with total difficulty td so far.
\* fault = NoFault, or [block, error]: the sender recovery or the executor fails at
\* that block, or the store fails while that block's changes are applied (the
\* changes of the blocks before it are then already in the transaction).
\* Result: Ok, Err, or the panic of `latest.unwrap()` on an empty batch, with the
\* write transaction as it stands at that point.
ExecuteInner(sdb, hdb, bdb, lo, hi, td, fault) ==
    LET rows == {n \in DOMAIN hdb.headers : lo <= n /\ n <= hi}
        no_body == {n \in rows : ~BodyRowPresent(bdb, n)}
        RECURSIVE TdAt(_)
        TdAt(n) == td + (LET below == {m \in rows : m <= n}
                             RECURSIVE Sum(_)
                             Sum(S) == IF S = {} THEN 0
                                       ELSE LET m == SetMax(S)
                                            IN hdb.headers[m].difficulty + Sum(S \ {m})
                         IN  Sum(below))
        failing == {n \in rows \ no_body :
                      \/ TxWalkError(bdb, bdb.bodies[n]) # NoError
                      \/ fault.block = n}
        RECURSIVE Entries(_)
        Entries(S) == IF S = {} THEN <<>>
                      ELSE LET n == SetMin(S)
                           IN  <<[number |-> n, td |-> TdAt(n)]>> \o Entries(S \ {n})
        Result(res, e, at, applied_rows) ==
            [result |-> res, error |-> e, at |-> at,
             tx |-> [applied |-> sdb.applied \o Entries(applied_rows),
                     accounts |-> IF applied_rows = {} THEN sdb.accounts ELSE "modified",
                     stage |-> IF res = "Ok" THEN SetMax(rows) ELSE sdb.stage],
             td |-> IF rows = {} THEN td ELSE TdAt(SetMax(rows))]
    IN  IF no_body # {}
        THEN Result("Err", "ProviderError::BlockBody", SetMin(no_body), {})
        ELSE IF failing # {}
        THEN LET n == SetMin(failing)
                 walk == TxWalkError(bdb, bdb.bodies[n])
             IN  IF walk # NoError
                 THEN Result("Err", walk.error, walk.missing, {})
                 ELSE IF fault.error = "DatabaseError"
                 THEN Result("Err", fault.error, n, {m \in rows : m < n})
                 ELSE Result("Err", fault.error, n, {})
        ELSE IF rows = {}
        THEN Result("Panic", "latest.unwrap() on None", lo, {})
        ELSE Result("Ok", "none", None, rows)

\* a faulty variant of the error return: the writes made so far are committed
StateTxAbortKeepsWrites(db, tx) == tx

\* an error return of execute_inner: `tx` is dropped without commit and aborted
StateTxAbort(db, tx) == db

\* a faulty variant of the commit: the changes without the progress marker
StateTxCommitWithoutMarker(db, tx) == [db EXCEPT !.applied = tx.applied]

\* `EXECUTION.save_progress(&tx, latest)?; tx.commit()?`
StateTxCommit(db, tx) == tx

NoFault == [block |-> None, error |-> "none"]

Faults(lo, hi) ==
    {NoFault} \cup [block : lo..hi,
                 error : {"SenderRecoveryFailed", "ExecutionError", "DatabaseError"}]

\* the upper end of the next state sub-range
\* a faulty variant of the sub-range end: the last block before the next
\* boundary at or after sync_from, which is sync_from - 1 on a boundary
SyncUntilBeforeBoundary(sync_from, tip_number) ==
    Min(tip_number,
        (sync_from - 1) + ((snapshot_interval - (sync_from % snapshot_interval)) % snapshot_interval))

SyncUntil(sync_from, tip_number) ==
    Min(tip_number, sync_from + snapshot_interval - (sync_from % snapshot_interval))

\* `while sync_from <= tip.number`
StateLoopContinues(sync_from, tip_number) == sync_from <= tip_number

\* a faulty variant of the chunk start: `progress` for `progress + 1`
ChunkStartAtProgress(progress) == progress

\* `let start = progress + 1` of StateSync::run
ChunkStart(progress) == progress + 1

\* `let mut sync_from = state_sync.get_progress()? + 1`
OrchStateBegin ==
    /\ pc = "st_begin"
    /\ orch' = [orch EXCEPT !.sync_from = UnwrapOrDefault(stateDb.stage) + 1]
    /\ pc' = "st_loop"
    /\ UNCHANGED <<bucket, plain, di, base, tip, headersDb, bodiesDb, stateDb, remote, hs, bs, ss, snap, err, runs, hist>>

\* `while sync_from <= tip.number`: compute sync_until and enter StateSync::run,
\* which computes td and reads the progress; after the loop return Ok
OrchStateLoop ==
    /\ pc = "st_loop"
    /\ IF StateLoopContinues(orch.sync_from, tip.number)
       THEN LET sync_until == SyncUntil(orch.sync_from, tip.number)
            IN  /\ orch' = [orch EXCEPT !.sync_until = sync_until]
                /\ ss' = [range_end |-> sync_until,
                          start_progress |-> UnwrapOrDefault(stateDb.stage),
                          progress |-> UnwrapOrDefault(stateDb.stage),
                          td |-> GetTd(headersDb, base, orch.sync_from),
                          writers |-> {}]
                /\ hist' = [hist EXCEPT !.order = Append(@, "state")]
                /\ pc' = "st_run"
       ELSE /\ pc' = "ok"
            /\ UNCHANGED <<orch, ss, hist>>
    /\ UNCHANGED <<bucket, plain, di, base, tip, headersDb, bodiesDb, stateDb, remote, hs, bs, snap, err, runs>>

\* a faulty variant of the loop condition: the run stops one chunk short
StateRunStopsShort(progress, range_end) == progress + commit_threshold + 1 < range_end

\* `while progress < *range.end()` in StateSync::run
StateRunContinues(progress, range_end) == progress < range_end

\* the environments on which execute_inner begins a write transaction:
\* `self.headers_db.tx_mut()`, `self.bodies_db.tx()`, `self.state_db.tx_mut()`
ExecuteInnerWriters == {"headers", "state"}

\* one iteration of `while progress < *range.end()` in StateSync::run
StateExecuteInner ==
    /\ pc = "st_run"
    /\ StateRunContinues(ss.progress, ss.range_end)
    /\ LET start == ChunkStart(ss.progress)
           end == Min(ss.range_end, start + commit_threshold)
       IN  \E fault \in Faults(start, end) :
             LET r == ExecuteInner(stateDb, headersDb, bodiesDb, start, end, ss.td, fault)
             IN  \/ /\ r.result = "Ok"
                    /\ stateDb' = StateTxCommit(stateDb, r.tx)
                    /\ ss' = [ss EXCEPT !.progress = UnwrapOrDefault(stateDb'.stage),
                                        !.td = r.td,
                                        !.writers = ExecuteInnerWriters]
                    /\ UNCHANGED <<pc, err>>
                 \/ /\ r.result = "Err"
                    /\ Fail(r.error, r.at)
                    /\ stateDb' = StateTxAbort(stateDb, r.tx)
                    /\ ss' = [ss EXCEPT !.writers = ExecuteInnerWriters]
                 \/ /\ r.result = "Panic"
                    /\ pc' = "panic"
                    /\ ss' = [ss EXCEPT !.writers = ExecuteInnerWriters]
                    /\ UNCHANGED <<stateDb, err>>
    /\ hist' = [hist EXCEPT !.open = WriteTxClose(WriteTxOpen(@, ExecuteInnerWriters),
                                                  ExecuteInnerWriters)]
    /\ UNCHANGED <<bucket, plain, di, base, tip, headersDb, bodiesDb, remote, orch, hs, bs, snap, runs>>

\* a faulty variant of the upload condition: a snapshot after every sub-range
StateSnapshotAlways(sync_until, tip_number) == TRUE

\* a faulty variant of the upload condition: never a snapshot at the tip
StateSnapshotBelowTipOnly(sync_until, tip_number) == sync_until # tip_number

\* `if sync_until != tip.number || (sync_until == tip.number && tip.number % snapshot_interval == 0)`
StateSnapshotDue(sync_until, tip_number) ==
    \/ sync_until # tip_number
    \/ (sync_until = tip_number /\ tip_number % snapshot_interval = 0)

\* StateSync::run returns Ok; the orchestrator advances sync_from and uploads a
\* state snapshot on a boundary
StateRunReturn ==
    /\ pc = "st_run"
    /\ ~StateRunContinues(ss.progress, ss.range_end)
    /\ orch' = [orch EXCEPT !.sync_from = orch.sync_until + 1]
    /\ hist' = [hist EXCEPT !.ranges = Append(@, [from |-> orch.sync_from,
                                                   to |-> orch.sync_until,
                                                   progress |-> ss.start_progress]),
                             !.done = @ \cup {"state"}]
    /\ IF StateSnapshotDue(orch.sync_until, tip.number)
       THEN /\ pc' = "snap_save"
            /\ snap' = [prefix |-> "state", progress |-> orch.sync_until,
                        listing |-> {}, cleanup |-> FALSE, ret |-> "st_loop"]
       ELSE /\ pc' = "st_loop"
            /\ UNCHANGED snap
    /\ UNCHANGED <<bucket, plain, di, base, tip, headersDb, bodiesDb, stateDb, remote, hs, bs, ss, err, runs>>

\* ------------------------------------------------------------- restart
\* The process is killed (or has returned) and run_sync_with_snapshots is invoked
\* again with the same tip: committed database contents and the remote store
\* survive, every local is lost.
Restart ==
    /\ runs < MaxRuns
    /\ runs' = runs + 1
    /\ pc' = "start"
    /\ orch' = Orch0 /\ hs' = Hs0 /\ bs' = Bs0 /\ ss' = Ss0
    /\ snap' = NoSnap
    /\ err' = NoErr
    /\ hist' = [order |-> <<>>,
                start |-> [headers |-> UnwrapOrDefault(headersDb.stage),
                           bodies |-> UnwrapOrDefault(bodiesDb.stage),
                           state |-> UnwrapOrDefault(stateDb.stage)],
                ranges |-> <<>>,
                uploads |-> {},
                done |-> {},
                prev_done |-> hist.done,
                open |-> {}]
    /\ UNCHANGED <<bucket, plain, di, base, tip, headersDb, bodiesDb, stateDb, remote>>

Next ==
    \/ OrchStart
    \/ HeadersGetSyncGap
    \/ HeadersGapClosed
    \/ HeadersDownload
    \/ HeadersEmptyBatch
    \/ HeadersChannelClosed
    \/ HeadersSave
    \/ OrchAfterHeaders
    \/ SnapshotSave
    \/ SnapshotList
    \/ SnapshotDelete
    \/ OrchBodiesBegin
    \/ BodiesBatch
    \/ BodiesEmptyBatch
    \/ BodiesChannelClosed
    \/ OrchAfterBodies
    \/ OrchStateBegin
    \/ OrchStateLoop
    \/ StateExecuteInner
    \/ StateRunReturn
    \/ Restart

Spec == Init /\ [][Next]_vars

\* ------------------------------------------------ DatabaseInitializer
\* DatabaseInitializer::init for one descriptor: the prefix of the initializer
\* names it ("headers", "bodies", "state") and the local file is the database
\* variable of that name. A remote entry whose progress is None has a key
\* without a parseable block number.
Descriptors == {"headers", "bodies", "state"}

GenesisHash == HashOf(ChainHeader(0))
ForeignHash == GenesisHash + 1

\* the local progress and the snapshot progress of the restore example
ExampleLocal == snapshot_interval \div 2
ExampleRemote == snapshot_interval

\* a database of descriptor d with the rows b..h and marker m (h = b - 1: the
\* tables are empty)
DescrImage(d, b, h, m, table) ==
    CASE d = "headers" -> HeadersImage(b, h, m)
      [] d = "bodies" -> BodiesImage(b, h, m, table, None)
      [] d = "state" -> [StateImage(b, Max(b, h), m) EXCEPT
                            !.accounts = IF h < 0 THEN "absent" ELSE @]

\* the first row of CanonicalHeaders (the genesis row when the window starts above it)
FirstCanonical(db, b) ==
    IF b > 0 THEN GenesisHash
    ELSE IF DOMAIN db.canonical = {} THEN None
    ELSE db.canonical[SetMin(DOMAIN db.canonical)]

\* the window base of a stored image
ImageBase(d, image) ==
    CASE d = "headers" -> IF DOMAIN image.canonical = {} THEN 0 ELSE SetMin(DOMAIN image.canonical)
      [] d = "bodies" -> IF DOMAIN image.bodies = {} THEN 0 ELSE SetMin(DOMAIN image.bodies)
      [] d = "state" -> IF image.applied = <<>> THEN UnwrapOrDefault(image.stage)
                        ELSE image.applied[1].number - 1

DiLocals == {<<0, 0 - 1>>, <<0, 0>>, <<0, 1>>, <<0, 2>>, <<ExampleLocal, ExampleLocal>>}
SnapshotProgresses == {1, 2, ExampleRemote}
SnapBase(p) == IF p <= MaxBlock THEN 0 ELSE p

\* the databases the initializer is not working on
IdleDb(d) == DescrImage(d, 0, 0, None, TRUE)

DiInit ==
    /\ \E d \in Descriptors, l \in DiLocals, foreign \in BOOLEAN, table \in BOOLEAN,
          S \in SUBSET SnapshotProgresses, malformed \in BOOLEAN :
        /\ foreign => (d = "headers" /\ l[1] = 0 /\ l[2] >= 0)
        /\ ~table => d = "bodies"
        /\ (d = "bodies" /\ l[2] < 0) => ~table
        /\ base = l[1]
        /\ LET m == IF l[2] <= 0 THEN None ELSE l[2]
               image == DescrImage(d, l[1], l[2], m, table)
               local == IF foreign
                        THEN [image EXCEPT !.canonical = (0 :> ForeignHash) @@ @]
                        ELSE image
           IN  /\ headersDb = IF d = "headers" THEN local ELSE IdleDb("headers")
               /\ bodiesDb = IF d = "bodies" THEN local ELSE IdleDb("bodies")
               /\ stateDb = IF d = "state" THEN local ELSE IdleDb("state")
        /\ remote = [q \in Descriptors |->
                       IF q # d THEN {}
                       ELSE {[progress |-> p, image |-> DescrImage(d, SnapBase(p), p, p, TRUE)] : p \in S}
                            \cup (IF malformed
                                  THEN {[progress |-> None, image |-> DescrImage(d, 0, 0, None, TRUE)]}
                                  ELSE {})]
        /\ di = [Di0 EXCEPT !.prefix = d,
                            !.before = IF d = "headers" THEN headersDb
                                       ELSE IF d = "bodies" THEN bodiesDb ELSE stateDb]
    /\ tip = [hash |-> GenesisHash, number |-> 0]
    /\ plain = Plain0
    /\ bucket = Bucket0
    /\ pc = "di_open"
    /\ runs = 1
    /\ orch = Orch0 /\ hs = Hs0 /\ bs = Bs0 /\ ss = Ss0
    /\ snap = NoSnap
    /\ err = NoErr
    /\ hist = [order |-> <<>>, start |-> [headers |-> 0, bodies |-> 0, state |-> 0],
               ranges |-> <<>>, uploads |-> {}, done |-> {}, prev_done |-> {}, open |-> {}]

\* the local database file of the initializer
LocalDb == ImageOf(di.prefix)

SetLocal(image) ==
    /\ headersDb' = IF di.prefix = "headers" THEN image ELSE headersDb
    /\ bodiesDb' = IF di.prefix = "bodies" THEN image ELSE bodiesDb
    /\ stateDb' = IF di.prefix = "state" THEN image ELSE stateDb

\* variables the initializer never touches
diIdle == <<tip, orch, hs, bs, ss, snap, hist, remote, plain, bucket>>

\* DatabaseDescriptor::progress: the stage marker; the bodies tables lack SyncStage
DescriptorProgress(d, db) ==
    IF d = "bodies" /\ ~db.has_sync_stage
    THEN [ok |-> FALSE, value |-> None]
    ELSE [ok |-> TRUE, value |-> db.stage]

\* faulty variants of the snapshot choice: the oldest snapshot instead of the
\* newest; a snapshot that is not ahead of the local progress
BestSnapshotOldest(snapshots, progress) ==
    IF snapshots = {} THEN None
    ELSE IF SetMin(snapshots) > progress THEN SetMin(snapshots) ELSE None

BestSnapshotNotBehind(snapshots, progress) ==
    IF snapshots = {} THEN None
    ELSE IF SetMax(snapshots) >= progress THEN SetMax(snapshots) ELSE None

\* `snapshots.rev().next().filter(|s| s.1 > progress)` over the parsed progresses
BestSnapshot(snapshots, progress) ==
    IF snapshots = {} THEN None
    ELSE IF SetMax(snapshots) > progress THEN SetMax(snapshots) ELSE None

\* faulty variant: the genesis row is written over whatever is there
EnsureGenesisHeadersOverwrite(db, b) ==
    [ok |-> TRUE, expected |-> GenesisHash, actual |-> GenesisHash,
     db |-> [db EXCEPT !.canonical = (0 :> GenesisHash) @@ @,
                       !.headers = (0 :> ChainHeader(0)) @@ @]]

\* HeadersDescriptor::ensure_genesis
EnsureGenesisHeaders(db, b) ==
    LET hash == GenesisHash
        inserted_hash == FirstCanonical(db, b)
    IN  IF inserted_hash # None
        THEN IF inserted_hash = hash
             THEN [ok |-> TRUE, expected |-> hash, actual |-> inserted_hash, db |-> db]
             ELSE [ok |-> FALSE, expected |-> hash, actual |-> inserted_hash, db |-> db]
        ELSE [ok |-> TRUE, expected |-> hash, actual |-> None,
              db |-> [db EXCEPT !.canonical = (0 :> hash) @@ @,
                                !.headers = (0 :> ChainHeader(0)) @@ @]]

\* BodiesDescriptor::ensure_genesis: reads SyncStage, which the bodies tables lack
EnsureGenesisBodies(db, b) ==
    IF ~db.has_sync_stage
    THEN [ok |-> FALSE, db |-> db]
    ELSE IF db.stage = None /\ b = 0
         THEN [ok |-> TRUE,
               db |-> [db EXCEPT !.bodies = (0 :> [start_tx_id |-> 0, tx_count |-> 0]) @@ @]]
         ELSE [ok |-> TRUE, db |-> db]

\* faulty variant: the genesis allocation is written whatever the marker says
EnsureGenesisStateAlways(db) ==
    [ok |-> TRUE, db |-> [db EXCEPT !.accounts = "genesis"]]

\* StateDescriptor::ensure_genesis
EnsureGenesisState(db) ==
    IF db.stage = None
    THEN [ok |-> TRUE, db |-> [db EXCEPT !.accounts = "genesis"]]
    ELSE [ok |-> TRUE, db |-> db]

\* initialize_database: opens the environment and creates the descriptor's tables
DiOpen ==
    /\ pc = "di_open"
    /\ IF di.file = "truncated"
       THEN Fail("Open", None)
       ELSE pc' = "di_progress" /\ UNCHANGED err
    /\ UNCHANGED <<bucket, plain, di, base, headersDb, bodiesDb, stateDb, runs>>
    /\ UNCHANGED diIdle

\* `descriptor.progress(Arc::clone(&local))?.unwrap_or_default()`
DiProgress ==
    /\ pc = "di_progress"
    /\ LET progress == DescriptorProgress(di.prefix, LocalDb)
       IN  IF progress.ok
           THEN /\ di' = [di EXCEPT !.progress = UnwrapOrDefault(progress.value)]
                /\ pc' = "di_list"
                /\ UNCHANGED err
           ELSE /\ Fail("Database", None)
                /\ UNCHANGED di
    /\ UNCHANGED <<base, headersDb, bodiesDb, stateDb, runs>>
    /\ UNCHANGED diIdle

\* `remote.list(Some(&self.prefix)).await?`
DiList ==
    /\ pc = "di_list"
    /\ \/ /\ di' = [di EXCEPT !.snapshots = {e.progress : e \in remote[di.prefix]}]
          /\ pc' = "di_pick"
          /\ UNCHANGED err
       \/ /\ Fail("Remote", None)
          /\ UNCHANGED di
    /\ UNCHANGED <<base, headersDb, bodiesDb, stateDb, runs>>
    /\ UNCHANGED diIdle

\* get_snapshot_progress of every key (a key it cannot parse panics), then the
\* choice of the best snapshot
DiPick ==
    /\ pc = "di_pick"
    /\ IF None \in di.snapshots
       THEN pc' = "panic" /\ UNCHANGED di
       ELSE LET best_snapshot == BestSnapshot(di.snapshots, di.progress)
            IN  /\ di' = [di EXCEPT !.best = best_snapshot]
                /\ pc' = IF best_snapshot # None THEN "di_retrieve" ELSE "di_genesis"
    /\ UNCHANGED <<err, base, headersDb, bodiesDb, stateDb, runs>>
    /\ UNCHANGED diIdle

\* `remote.retrieve(&key).await?.unwrap()`
DiRetrieve ==
    /\ pc = "di_retrieve"
    /\ \/ /\ \E e \in remote[di.prefix] :
               /\ e.progress = di.best
               /\ di' = [di EXCEPT !.contents = e.image, !.retrieved = TRUE]
          /\ pc' = "di_write"
          /\ UNCHANGED err
       \/ /\ pc' = "panic"
          /\ UNCHANGED <<di, err>>
       \/ /\ Fail("Remote", None)
          /\ UNCHANGED di
    /\ UNCHANGED <<base, headersDb, bodiesDb, stateDb, runs>>
    /\ UNCHANGED diIdle

\* `fs::write(self.path.join(MDBX_DAT), contents)?` and Env::open of the new file
DiWrite ==
    /\ pc = "di_write"
    /\ \/ /\ SetLocal(di.contents)
          /\ base' = ImageBase(di.prefix, di.contents)
          /\ di' = [di EXCEPT !.restored = TRUE]
          /\ pc' = "di_genesis"
          /\ UNCHANGED err
       \/ /\ Fail("Io", None)
          /\ \E f \in {di.file, "truncated"} : di' = [di EXCEPT !.file = f]
          /\ UNCHANGED <<base, headersDb, bodiesDb, stateDb>>
       \/ \* the process is killed inside fs::write, which truncates the file
          \* and then writes the contents in place
          /\ pc' = "crash"
          /\ di' = [di EXCEPT !.file = "truncated"]
          /\ UNCHANGED <<err, base, headersDb, bodiesDb, stateDb>>
    /\ UNCHANGED runs
    /\ UNCHANGED diIdle

\* `descriptor.ensure_genesis(Arc::clone(&db), chain_spec)?; Ok(db)`
DiGenesis ==
    /\ pc = "di_genesis"
    /\ LET result == CASE di.prefix = "headers" -> EnsureGenesisHeaders(headersDb, base)
                       [] di.prefix = "bodies" -> EnsureGenesisBodies(bodiesDb, base)
                       [] di.prefix = "state" -> EnsureGenesisState(stateDb)
       IN  IF result.ok
           THEN /\ SetLocal(result.db)
                /\ pc' = "di_ok"
                /\ UNCHANGED <<bucket, plain, di, err>>
           ELSE /\ UNCHANGED <<headersDb, bodiesDb, stateDb>>
                /\ IF di.prefix = "headers"
                   THEN /\ Fail("GenesisHashMismatch", result.actual)
                        /\ di' = [di EXCEPT !.mismatch = [expected |-> result.expected,
                                                          actual |-> result.actual]]
                   ELSE /\ Fail("Database", None)
                        /\ UNCHANGED di
    /\ UNCHANGED <<base, runs>>
    /\ UNCHANGED diIdle

\* the process is started again on the same directory
DiAgain ==
    /\ pc \in {"di_ok", "err", "panic", "crash"}
    /\ runs < MaxRuns
    /\ runs' = runs + 1
    /\ pc' = "di_open"
    /\ err' = NoErr
    /\ di' = [Di0 EXCEPT !.prefix = di.prefix, !.before = LocalDb, !.file = di.file]
    /\ UNCHANGED <<base, headersDb, bodiesDb, stateDb>>
    /\ UNCHANGED diIdle

DiNext ==
    \/ DiOpen
    \/ DiProgress
    \/ DiList
    \/ DiPick
    \/ DiRetrieve
    \/ DiWrite
    \/ DiGenesis
    \/ DiAgain

InitSpec == DiInit /\ [][DiNext]_vars


\* The loop of run_sync_with_snapshots over ranges of several snapshot intervals.
\* The blocks of such a range cannot be tabulated, so StateSync::run is taken by
\* its outcome: it returns Ok with EXECUTION at the end of the range, or an error.
\* Everything else is the orchestrator's own code (the actions above).
CadPoints ==
    {h * (snapshot_interval \div 2) + d : h \in 0..MaxHalves, d \in {0 - 1, 0, 1}} \ {0 - 1}

CadInit ==
    /\ base = 0
    /\ \E t \in CadPoints, p0 \in CadPoints :
        /\ tip = [hash |-> BlockHash(t), number |-> t]
        /\ stateDb = [applied |-> <<>>,
                      accounts |-> IF p0 = 0 THEN "genesis" ELSE "modified",
                      stage |-> MarkerAt(0, p0)]
        /\ hist = [order |-> <<"headers", "bodies">>,
                   start |-> [headers |-> t, bodies |-> t, state |-> p0],
                   ranges |-> <<>>,
                   uploads |-> {},
                   done |-> {"headers", "bodies"},
                   prev_done |-> {}, open |-> {}]
    /\ headersDb = HeadersImage(0, 0, None)
    /\ bodiesDb = BodiesImage(0, 0, None, TRUE, None)
    /\ remote = [headers |-> {}, bodies |-> {}, state |-> {}]
    /\ pc = "st_begin"
    /\ runs = 1
    /\ orch = Orch0 /\ hs = Hs0 /\ bs = Bs0 /\ ss = Ss0
    /\ snap = NoSnap
    /\ err = NoErr
    /\ di = Di0
    /\ plain = Plain0
    /\ bucket = Bucket0

\* `state_sync.run(sync_from..=sync_until).await?`
CadStateRun ==
    /\ pc = "st_run"
    /\ ss.progress < ss.range_end
    /\ \/ /\ stateDb' = [stateDb EXCEPT !.stage = ss.range_end, !.accounts = "modified"]
          /\ ss' = [ss EXCEPT !.progress = ss.range_end, !.writers = ExecuteInnerWriters]
          /\ UNCHANGED <<pc, err>>
       \/ /\ Fail("StateSync::run", ss.progress + 1)
          /\ UNCHANGED <<stateDb, ss>>
    /\ UNCHANGED <<bucket, plain, di, base, tip, headersDb, bodiesDb, remote, orch, hs, bs, snap, runs, hist>>

CadNext ==
    \/ OrchStateBegin
    \/ OrchStateLoop
    \/ CadStateRun
    \/ StateRunReturn
    \/ SnapshotSave

CadenceSpec == CadInit /\ [][CadNext]_vars

\* ------------------------------------------------ apply_state_changes
\* StateSync::apply_state_changes on the plain-state tables, row by row: one
\* action per AccountChangeSet of a transaction and per block changeset, in the
\* order of the two loops, block after block around the Spurious Dragon fork.
\* plain.last, plain.op and plain.zeroed record what the last step was given.
MaxKey == 1
MaxValue == 2
MaxEntries == 2
ForkBlock == 2

Addresses == {"0xaa"}
AccountValues == [nonce : {0, 1}, balance : {0, 1}, bytecode_hash : {"None"}]

\* Account::is_empty
IsEmpty(account) ==
    /\ account.nonce = 0
    /\ account.balance = 0
    /\ account.bytecode_hash \in {"None", "KECCAK_EMPTY"}

\* `chain_spec.fork(Hardfork::SpuriousDragon).active_at_block(block)`
SpuriousDragonActive(block) == block >= ForkBlock

AccountChanges ==
    {NoChange, [kind |-> "Destroyed", new |-> EmptyAccount]}
        \cup [kind : {"Changed", "Created"}, new : AccountValues]

\* tx.put / tx.delete on PlainAccountState
AccountPut(accounts, address, new) == (address :> new) @@ accounts
AccountDelete(accounts, address) == [a \in DOMAIN accounts \ {address} |-> accounts[a]]

\* StateSync::apply_account_changeset
ApplyAccountChangeset(accounts, changeset, address, has_state_clear_eip) ==
    CASE changeset.kind = "Changed" -> AccountPut(accounts, address, changeset.new)
      [] changeset.kind = "Created" ->
            IF has_state_clear_eip /\ IsEmpty(changeset.new)
            THEN accounts
            ELSE AccountPut(accounts, address, changeset.new)
      [] changeset.kind = "Destroyed" -> AccountDelete(accounts, address)
      [] changeset.kind = "NoChange" -> accounts

\* the storage changes of one account: (key, old_value, new_value) in order
StorageChange == [key : 1..MaxKey, old_value : 0..MaxValue, new_value : 0..MaxValue]
StorageLists == UNION {[1..n -> StorageChange] : n \in 0..MaxEntries}

\* PlainStorageState is a DupSort table: the rows of an address are its
\* (key, value) duplicates
StorageRow(address, key, value) == [address |-> address, key |-> key, value |-> value]

\* `tx.delete::<PlainStorageState>(address, None)`: every duplicate of the address
StorageDeleteAll(rows, address) == {r \in rows : r.address # address}

\* a faulty variant of the delete: the old duplicate stays
StorageDeleteNothing(rows, address, key, value) == rows

\* `tx.delete::<PlainStorageState>(address, Some(StorageEntry { key, value }))`:
\* that duplicate, if it is there
StorageDeleteEntry(rows, address, key, value) == rows \ {StorageRow(address, key, value)}

\* a faulty variant of the write: the new value is put even when it is zero
StorageWriteAlways(rows, address, key, new_value) ==
    rows \cup {StorageRow(address, key, new_value)}

\* `if new_value != U256::ZERO { tx.put::<PlainStorageState>(..) }`
StorageWrite(rows, address, key, new_value) ==
    IF new_value # 0 THEN rows \cup {StorageRow(address, key, new_value)} ELSE rows

\* the storage branch of apply_state_changes for one account
RECURSIVE ApplyStorageEntries(_, _, _, _, _)
ApplyStorageEntries(rows, address, wipe_storage, storage, i) ==
    IF i > Len(storage) THEN rows
    ELSE LET e == storage[i]
             cleared == IF wipe_storage THEN rows
                        ELSE StorageDeleteEntry(rows, address, e.key, e.old_value)
         IN  ApplyStorageEntries(StorageWrite(cleared, address, e.key, e.new_value),
                                 address, wipe_storage, storage, i + 1)

ApplyStorage(rows, address, wipe_storage, storage) ==
    ApplyStorageEntries(IF wipe_storage THEN StorageDeleteAll(rows, address) ELSE rows,
                        address, wipe_storage, storage, 1)

\* LatestSplitStateProvider::storage: seek_by_key_subkey positions at the first
\* duplicate of the account whose key is at least storage_key; its value is
\* returned when the key is storage_key (0 stands for None)
StoredValue(rows, account, storage_key) ==
    LET from == {r \in rows : r.address = account /\ r.key >= storage_key}
        first == CHOOSE r \in from :
                    \A q \in from : r.key < q.key \/ (r.key = q.key /\ r.value <= q.value)
    IN  IF from = {} THEN 0
        ELSE IF first.key = storage_key THEN first.value ELSE 0

\* the changeset's storage is a map (one entry per key), and in an update each
\* entry's old value is the value stored for the slot
OldMatches(rows, address, wipe_storage, storage) ==
    /\ \A i \in 1..Len(storage), j \in 1..Len(storage) :
          storage[i].key = storage[j].key => i = j
    /\ wipe_storage \/
          \A i \in 1..Len(storage) :
              storage[i].old_value = StoredValue(rows, address, storage[i].key)

\* the latest non-zero new value of every slot after the changeset: the slots of
\* a wiped account are cleared, the slots of the changeset take their new values
LatestAfter(latest, address, wipe_storage, storage) ==
    LET keys == {storage[i].key : i \in 1..Len(storage)}
        kept == {r \in latest :
                    r.address # address \/ (~wipe_storage /\ r.key \notin keys)}
    IN  kept \cup {StorageRow(address, storage[i].key, storage[i].new_value) :
                     i \in {j \in 1..Len(storage) : storage[j].new_value # 0}}

\* storage tables as execution leaves them: one non-zero value per slot at most
CleanStorages ==
    {rows \in SUBSET {StorageRow(a, k, v) : a \in Addresses, k \in 1..MaxKey, v \in 1..MaxValue} :
        \A r1 \in rows, r2 \in rows :
            (r1.address = r2.address /\ r1.key = r2.key) => r1 = r2}

AccountTables == UNION {[D -> AccountValues] : D \in SUBSET Addresses}

ChInit ==
    /\ \E accounts \in AccountTables, rows \in CleanStorages,
          block \in (ForkBlock - 1)..(ForkBlock + 1) :
        plain = [Plain0 EXCEPT !.accounts = accounts, !.storage = rows, !.block = block,
                               !.latest = rows]
    /\ pc = "ch_tx"
    /\ base = 0
    /\ tip = [hash |-> BlockHash(ForkBlock + 1), number |-> ForkBlock + 1]
    /\ headersDb = HeadersImage(0, 0, None)
    /\ bodiesDb = BodiesImage(0, 0, None, TRUE, None)
    /\ stateDb = StateImage(0, 0, None)
    /\ remote = [headers |-> {}, bodies |-> {}, state |-> {}]
    /\ runs = 1
    /\ orch = Orch0 /\ hs = Hs0 /\ bs = Bs0 /\ ss = Ss0
    /\ snap = NoSnap
    /\ err = NoErr
    /\ di = Di0
    /\ bucket = Bucket0
    /\ hist = [order |-> <<>>, start |-> [headers |-> 0, bodies |-> 0, state |-> 0],
               ranges |-> <<>>, uploads |-> {}, done |-> {}, prev_done |-> {}, open |-> {}]

chIdle == <<base, tip, headersDb, bodiesDb, stateDb, remote, orch, hs, bs, ss, snap,
            err, runs, di, hist, bucket>>

\* one (address, AccountChangeSet) of a transaction's changeset
ChApplyTxChange ==
    /\ pc = "ch_tx"
    /\ \E address \in Addresses, account \in AccountChanges, wipe_storage \in BOOLEAN,
          storage \in StorageLists :
        plain' = [plain EXCEPT
            !.accounts = ApplyAccountChangeset(@, account, address,
                                               SpuriousDragonActive(plain.block)),
            !.storage = ApplyStorage(@, address, wipe_storage, storage),
            !.last = account,
            !.op = IF wipe_storage THEN "wipe" ELSE "update",
            !.zeroed = \E i \in 1..Len(storage) : storage[i].new_value = 0,
            !.matched = @ /\ OldMatches(plain.storage, address, wipe_storage, storage),
            \* followed as long as the old values have matched
            !.latest = IF plain.matched /\ OldMatches(plain.storage, address, wipe_storage, storage)
                       THEN LatestAfter(@, address, wipe_storage, storage)
                       ELSE {},
            !.overwrote = /\ plain.matched
                          /\ OldMatches(plain.storage, address, wipe_storage, storage)
                          /\ \E i \in 1..Len(storage) :
                                /\ storage[i].old_value # 0
                                /\ storage[i].new_value # 0
                                /\ storage[i].old_value # storage[i].new_value]
    /\ UNCHANGED pc
    /\ UNCHANGED chIdle

\* one (address, changeset) of result.block_changesets
ChApplyBlockChange ==
    /\ pc \in {"ch_tx", "ch_block"}
    /\ \E address \in Addresses, changeset \in AccountChanges :
        plain' = [plain EXCEPT
            !.accounts = ApplyAccountChangeset(@, changeset, address,
                                               SpuriousDragonActive(plain.block)),
            !.last = changeset,
            !.op = "block",
            !.zeroed = FALSE]
    /\ pc' = "ch_block"
    /\ UNCHANGED chIdle

\* apply_state_changes returns Ok and is called for the next block
ChNextBlock ==
    /\ pc \in {"ch_tx", "ch_block"}
    /\ plain.block <= ForkBlock
    /\ plain' = [plain EXCEPT !.block = @ + 1, !.last = NoChange, !.op = "none",
                              !.zeroed = FALSE]
    /\ pc' = "ch_tx"
    /\ UNCHANGED chIdle

ChNext ==
    \/ ChApplyTxChange
    \/ ChApplyBlockChange
    \/ ChNextBlock

ChangesSpec == ChInit /\ [][ChNext]_vars

\* ------------------------------------------------ remote stores
\* DigitalOceanStore and GithubRemoteStore call by call, on the bytes stored.
\* A call may meet a fault: "transport" (the request fails) or "service" (the
\* store answers with an error other than not-found).
StoreKinds == {"digitalocean", "github"}
StoreKeys == {"headers-1.dat.gz", "README.md"}
StoreFaults == {"none", "transport", "service"}

\* GzEncoder / GzDecoder
Gzip(bytes) == [bytes EXCEPT !.gz = TRUE]
Gunzip(bytes) ==
    IF bytes.gz
    THEN [ok |-> TRUE, value |-> [bytes EXCEPT !.gz = FALSE]]
    ELSE [ok |-> FALSE, value |-> NoBlob]

\* general_purpose::STANDARD encode / decode (the contents API carries files in base64)
Base64Encode(bytes) == [b64 |-> bytes]
Base64Decode(text) == text.b64

\* String::from_utf8 succeeds
IsUtf8(bytes) == ~bytes.gz /\ bytes.data = "text"

ResultSome(bytes) == [kind |-> "Some", value |-> bytes]
ResultNone == [kind |-> "None", value |-> NoBlob]
ResultErr == [kind |-> "Err", value |-> NoBlob]
ResultOk == [kind |-> "Ok", value |-> NoBlob]

\* DigitalOceanStore::retrieve
DigitalOceanRetrieve(objects, path, fault) ==
    IF fault # "none" THEN ResultErr
    ELSE IF path \notin DOMAIN objects THEN ResultNone
    ELSE LET decoded == Gunzip(objects[path])
         IN  IF decoded.ok THEN ResultSome(decoded.value) ELSE ResultErr

\* GithubRemoteStore::retrieve
GithubRetrieve(objects, path, fault) ==
    IF fault # "none" THEN ResultErr
    ELSE IF path \notin DOMAIN objects THEN ResultNone
    ELSE LET content == Base64Encode(objects[path])
             decoded == Base64Decode(content)
         IN  IF IsUtf8(decoded) THEN ResultSome(decoded) ELSE ResultErr

StoreRetrieve(kind, objects, path, fault) ==
    IF kind = "digitalocean"
    THEN DigitalOceanRetrieve(objects, path, fault)
    ELSE GithubRetrieve(objects, path, fault)

\* stores as they may be found: objects uploaded by save (gzip streams) and
\* files put there by hand
StoredBodies == {Gzip(Database), Gzip(Text), Text}
ObjectTables == UNION {[D -> StoredBodies] : D \in SUBSET StoreKeys}

StInit ==
    /\ \E kind \in StoreKinds, objects \in ObjectTables :
        bucket = [Bucket0 EXCEPT !.kind = kind, !.objects = objects]
    /\ plain = Plain0
    /\ pc = "store"
    /\ base = 0
    /\ tip = [hash |-> BlockHash(0), number |-> 0]
    /\ headersDb = HeadersImage(0, 0, None)
    /\ bodiesDb = BodiesImage(0, 0, None, TRUE, None)
    /\ stateDb = StateImage(0, 0, None)
    /\ remote = [headers |-> {}, bodies |-> {}, state |-> {}]
    /\ runs = 1
    /\ orch = Orch0 /\ hs = Hs0 /\ bs = Bs0 /\ ss = Ss0
    /\ snap = NoSnap
    /\ err = NoErr
    /\ di = Di0
    /\ hist = [order |-> <<>>, start |-> [headers |-> 0, bodies |-> 0, state |-> 0],
               ranges |-> <<>>, uploads |-> {}, done |-> {}, prev_done |-> {}, open |-> {}]

stIdle == <<base, tip, headersDb, bodiesDb, stateDb, remote, pc, orch, hs, bs, ss, snap,
            err, runs, di, plain, hist>>

\* DigitalOceanStore::save(path, content_path) / GithubRemoteStore::save(path, content, ..):
\* the content is compressed and put under the key. The contents API refuses a
\* put without `sha` when the file exists.
StSave ==
    /\ \E path \in StoreKeys, content \in {Database, Text}, fault \in StoreFaults :
        LET refused == bucket.kind = "github" /\ path \in DOMAIN bucket.objects
            ok == fault = "none" /\ ~refused
        IN  bucket' = [bucket EXCEPT
                !.objects = IF ok THEN (path :> Gzip(content)) @@ @ ELSE @,
                !.last = [op |-> "save", key |-> path, fault |-> fault,
                          result |-> IF ok THEN ResultOk ELSE ResultErr]]
    /\ UNCHANGED stIdle

\* retrieve(path)
StRetrieve ==
    /\ \E path \in StoreKeys, fault \in StoreFaults :
        bucket' = [bucket EXCEPT
            !.last = [op |-> "retrieve", key |-> path, fault |-> fault,
                      result |-> StoreRetrieve(bucket.kind, bucket.objects, path, fault)]]
    /\ UNCHANGED stIdle

\* DigitalOceanStore::delete(path)
StDelete ==
    /\ bucket.kind = "digitalocean"
    /\ \E path \in StoreKeys, fault \in StoreFaults :
        bucket' = [bucket EXCEPT
            !.objects = IF fault = "none"
                        THEN [k \in DOMAIN @ \ {path} |-> @[k]]
                        ELSE @,
            !.last = [op |-> "delete", key |-> path, fault |-> fault,
                      result |-> IF fault = "none" THEN ResultOk ELSE ResultErr]]
    /\ UNCHANGED stIdle

StNext ==
    \/ StSave
    \/ StRetrieve
    \/ StDelete

StoreSpec == StInit /\ [][StNext]_vars

\* the same program under weak fairness: a step is taken whenever one is possible
FairSpec == Init /\ [][Next]_vars /\ WF_vars(Next)

\* ============================================================ properties
HeadersProgress == UnwrapOrDefault(headersDb.stage)
BodiesProgress == UnwrapOrDefault(bodiesDb.stage)
StateProgress == UnwrapOrDefault(stateDb.stage)

\* the progress ordering held when this invocation of the orchestrator started
StartOrdered ==
    /\ hist.start.headers >= hist.start.bodies
    /\ hist.start.bodies >= hist.start.state

\* the orchestrator is between two stages (not inside HeadersSync::run,
\* BodiesSync::run or StateSync::run)
AtStageBoundary ==
    pc \in {"start", "hdr_done", "snap_save", "snap_list", "snap_delete",
            "bod_begin", "bod_done", "st_begin", "st_loop", "ok"}

\* C1: at every stage boundary of run_sync_with_snapshots, headers progress >=
\* bodies progress >= state progress, given the ordering held when the
\* orchestrator started.
C1_ProgressOrdering ==
    (StartOrdered /\ AtStageBoundary)
        => (HeadersProgress >= BodiesProgress /\ BodiesProgress >= StateProgress)

\* C1 witness: from an ordered start, the headers stage advanced its progress and
\* a state sub-range completed; the orchestrator is at the boundary after it.
C1_Witness ==
    /\ StartOrdered
    /\ pc = "st_loop"
    /\ hist.ranges # <<>>
    /\ HeadersProgress > hist.start.headers
    /\ StateProgress > hist.start.state

\* the stages were entered in the order headers, bodies, state sub-ranges
StagesInOrder ==
    /\ Len(hist.order) >= 2
    /\ hist.order[1] = "headers"
    /\ hist.order[2] = "bodies"
    /\ \A i \in 3..Len(hist.order) : hist.order[i] = "state"

AppliedBlocks(db) == {db.applied[k].number : k \in DOMAIN db.applied}

\* C3 (as stated): when a step of a state sub-range [sync_from, sync_until]
\* fails, nothing of that sub-range is committed and EXECUTION keeps its value
\* from before the sub-range; the orchestrator returns the error and terminates.
C3_SubRangeAtomic ==
    [][ /\ (pc = "st_run" /\ pc' = "err") =>
              /\ UnwrapOrDefault(stateDb'.stage) = ss.start_progress
              /\ \A n \in AppliedBlocks(stateDb') : n < orch.sync_from
              /\ err'.error # "none"
        /\ (pc = "err" /\ pc' # "err") => (pc' = "start" /\ runs' = runs + 1)
      ]_vars

\* C3 (amended): when a step of a commit_threshold chunk (one execute_inner call)
\* fails, nothing of that chunk is committed and EXECUTION keeps the value it had
\* before the chunk, which is the end of the last chunk of the sub-range that
\* committed; the error is returned to the orchestrator, which terminates.
C3_ChunkAtomic ==
    [][ /\ (pc = "st_run" /\ pc' = "err") =>
              /\ stateDb' = stateDb
              /\ UnwrapOrDefault(stateDb'.stage) = ss.progress
              /\ \A n \in AppliedBlocks(stateDb') : n <= ss.progress
              /\ err'.error # "none"
        /\ (pc = "err" /\ pc' # "err") => (pc' = "start" /\ runs' = runs + 1)
      ]_vars

\* C3 witness: a chunk failed with a database error at its second block, after
\* the changes of its first block were put into the write transaction.
C3_Witness ==
    /\ pc = "err"
    /\ hist.order # <<>>
    /\ hist.order[Len(hist.order)] = "state"
    /\ err.error = "DatabaseError"
    /\ err.at = ss.progress + 2

\* the highest block applied to the plain state (the window's base when none was)
HighestApplied(db) ==
    IF db.applied = <<>> THEN base
    ELSE SetMax(AppliedBlocks(db))

\* C4: in every committed state of the state database the EXECUTION marker is
\* the highest block applied to the plain state, and every commit changes the
\* marker and the plain state together, never one without the other.
C4_MarkerIsHighestApplied ==
    /\ [](StateProgress = HighestApplied(stateDb))
    /\ [][(stateDb'.applied # stateDb.applied) <=> (stateDb'.stage # stateDb.stage)]_vars

\* C4 witness: two chunks of one StateSync::run have committed.
C4_Witness ==
    /\ pc = "st_run"
    /\ ss.progress >= ss.start_progress + 3
    /\ StateProgress = ss.progress

\* StateSync::run has returned Ok and nothing has run since
StateRunJustReturned ==
    /\ hist.ranges # <<>>
    /\ \/ pc \in {"st_loop", "ok"}
       \/ pc = "snap_save" /\ snap.prefix = "state"

\* every block of from..to is applied exactly once and the log is ascending
AppliedOnceAscending(db, from, to) ==
    /\ \A n \in from..to :
          Cardinality({k \in DOMAIN db.applied : db.applied[k].number = n}) = 1
    /\ \A j, k \in DOMAIN db.applied :
          j < k => db.applied[j].number < db.applied[k].number

\* C5: when StateSync::run([from, to]) with from = EXECUTION + 1 returns Ok,
\* EXECUTION equals `to` and every block of [from, to] was applied exactly once,
\* in ascending order, none skipped, also across several chunks.
C5_RunAppliesRangeOnce ==
    StateRunJustReturned =>
        LET r == hist.ranges[Len(hist.ranges)]
        IN  r.from = r.progress + 1 =>
              /\ StateProgress = r.to
              /\ AppliedOnceAscending(stateDb, r.from, r.to)

\* C5 witness: a run over three blocks (two chunks) has returned Ok.
C5_Witness ==
    /\ StateRunJustReturned
    /\ LET r == hist.ranges[Len(hist.ranges)]
       IN  r.from = r.progress + 1 /\ r.to >= r.from + 2
\* BodiesSync::run has processed at least one batch in this invocation
BodiesBatchProcessed == pc \in {"bod_loop", "bod_done"} /\ bs.txs # <<>>

\* C6: after BodiesSync::run has processed a batch, the batch's BlockBodies,
\* Transactions, BlockOmmers and BlockWithdrawals rows and the BODIES marker set
\* to the batch's highest block are committed; when the run returns Ok after
\* downloading, the committed BODIES progress is tip.number.
C6_BatchCommitted ==
    BodiesBatchProcessed =>
        LET last == bs.txs[Len(bs.txs)]
        IN  /\ \A n \in last.lo..last.hi :
                  /\ n \in DOMAIN bodiesDb.bodies
                  /\ bodiesDb.bodies[n] = last.view.bodies[n]
            /\ last.view.transactions \subseteq bodiesDb.transactions
            /\ last.view.ommers \subseteq bodiesDb.ommers
            /\ last.view.withdrawals \subseteq bodiesDb.withdrawals
            /\ bodiesDb.stage = last.hi
            /\ (pc = "bod_done" => BodiesProgress = tip.number)

C8_HeadersContiguous ==
    pc = "hdr_done" =>
        LET p == HeadersProgress
        IN  /\ \A n \in base..p :
                  /\ n \in DOMAIN headersDb.headers
                  /\ n \in DOMAIN headersDb.canonical
                  /\ HashOf(headersDb.headers[n]) = headersDb.canonical[n]
            /\ p \in DOMAIN headersDb.canonical
            /\ headersDb.canonical[p] = tip.hash

\* C8 witness: the run returned Ok after downloading at least three headers,
\* which takes two batches or more.
C8_Witness ==
    /\ pc = "hdr_done"
    /\ HeadersProgress >= hist.start.headers + 3

\* C9: when the requested tip hash is the hash of the local head, HeadersSync::run
\* returns without requesting or writing a header: a closed gap ends the loop.
C9_ClosedGapReturns ==
    [][(pc = "hdr_check" /\ IsClosed(hs.gap) /\ runs' = runs)
          => (pc' \in {"hdr_save", "hdr_done"} /\ headersDb' = headersDb)]_vars

\* C10: a stage run a second time with the same tip after a successful first run
\* terminates with its database as the first run left it. For the headers stage:
\* once HeadersSync::run has returned Ok in the invocation before, the run of
\* this invocation returns.
C10_SecondRunReturns ==
    (runs >= 2 /\ "headers" \in hist.prev_done /\ pc = "hdr_gap")
        ~> (pc \notin {"hdr_gap", "hdr_check"})
\* the orchestrator has returned (Ok, Err) or the process has panicked
Returned == pc \in {"ok", "err", "panic"}

\* C11: after a crash at any point of a run that had committed, the orchestrator
\* run again to the same tip terminates (with the databases an uninterrupted run
\* produces). Stated as termination of the run after the restart, for crashes
\* after a stage of the run before had returned Ok.
C11_RestartedRunTerminates ==
    (runs >= 2 /\ pc = "start" /\ hist.prev_done # {}) ~> Returned

\* C12: the committed progress markers HEADERS, BODIES and EXECUTION never
\* decrease, over any sequence of runs.
C12_MarkersMonotonic ==
    [][ /\ UnwrapOrDefault(headersDb'.stage) >= UnwrapOrDefault(headersDb.stage)
        /\ UnwrapOrDefault(bodiesDb'.stage) >= UnwrapOrDefault(bodiesDb.stage)
        /\ UnwrapOrDefault(stateDb'.stage) >= UnwrapOrDefault(stateDb.stage)
      ]_vars

\* C12 witness: in the second run both the HEADERS and the EXECUTION marker were
\* committed with a higher value than the run started with.
C12_Witness ==
    /\ runs = 2
    /\ HeadersProgress > hist.start.headers
    /\ StateProgress > hist.start.state

\* the progress numbers of the keys stored under a prefix
RemoteKeys(prefix) == {e.progress : e \in remote[prefix]}

\* C17: when save_single_snapshot(prefix, n) returns Ok, the keys under the
\* prefix are exactly the key of n.
C17_OnlyLatestRemains ==
    [][(pc = "snap_delete" /\ pc' \notin {"snap_delete", "err", "start"})
          => {e.progress : e \in remote'[snap.prefix]} = {snap.progress}]_vars

\* C17 witness: save_single_snapshot for the headers has returned Ok, the older
\* headers snapshot is gone and the new one is the only key.
C17_Witness ==
    /\ pc = "bod_begin"
    /\ RemoteKeys("bodies") # {}
    /\ \E u \in hist.uploads : u[1] = "headers" /\ RemoteKeys("headers") = {u[2]}
    /\ base \notin RemoteKeys("headers")

\* C19: a failure of remote.save, remote.list or remote.delete while a snapshot
\* is taken does not end the orchestrator: the run goes on with the next stage
\* or sub-range.
C19_SnapshotErrorNotFatal ==
    [][(pc \in {"snap_save", "snap_list", "snap_delete"} /\ runs' = runs)
          => pc' # "err"]_vars
\* the progress numbers of the state snapshots this run has uploaded
StateUploads == {u[2] : u \in {v \in hist.uploads : v[1] = "state"}}

\* C18: when the orchestrator has uploaded a state snapshot, the state snapshots
\* before it are deleted: the newest one is the only key under the state prefix.
C18_PriorStateSnapshotsDeleted ==
    (pc \in {"st_loop", "ok"} /\ StateUploads # {})
        => RemoteKeys("state") = {SetMax(StateUploads)}

\* C20 (as stated): from state progress 0 with tip.number = 250000 the
\* orchestrator uploads state snapshots at 100000, 200000 and 250000.
C20_UploadsIncludeTip ==
    (pc = "ok" /\ hist.start.state = 0
       /\ tip.number = 2 * snapshot_interval + snapshot_interval \div 2)
        => StateUploads = {snapshot_interval, 2 * snapshot_interval, tip.number}

\* C20 (amended): from state progress 0 with tip.number = 250000 the
\* orchestrator uploads state snapshots at 100000 and 200000 and none at 250000
\* (the tip is not a multiple of the interval).
C20_UploadsAtBoundariesOnly ==
    (pc = "ok" /\ hist.start.state = 0
       /\ tip.number = 2 * snapshot_interval + snapshot_interval \div 2)
        => StateUploads = {snapshot_interval, 2 * snapshot_interval}

\* C20 witness: the run from 0 to 250000 has returned Ok after three sub-ranges.
C20_Witness ==
    /\ pc = "ok"
    /\ hist.start.state = 0
    /\ tip.number = 2 * snapshot_interval + snapshot_interval \div 2
    /\ Len(hist.ranges) = 3
    /\ StateProgress = tip.number
\* ------------------------------------------------ initializer properties
\* the progresses of the well-formed keys under the initializer's prefix
ListedProgresses == {e.progress : e \in remote[di.prefix]} \ {None}
LocalProgress == UnwrapOrDefault(LocalDb.stage)

\* C13: when DatabaseInitializer::init returns Ok, the progress marker of the
\* database it returns is at least the progress of every snapshot listed
\* under the initializer's prefix.
C13_ProgressAtLeastBestRemote ==
    pc = "di_ok" => \A p \in ListedProgresses : LocalProgress >= p

\* init returned Ok after a restore that had several snapshots to choose from
C13_Witness ==
    /\ pc = "di_ok"
    /\ di.restored
    /\ Cardinality(ListedProgresses) >= 2
    /\ LocalProgress = SetMax(ListedProgresses)

\* the progress of the local database when init was entered
EntryProgress == UnwrapOrDefault(di.before.stage)
RemoteAhead == ListedProgresses # {} /\ SetMax(ListedProgresses) > EntryProgress

\* C14: restore_database replaces the local file by a snapshot exactly when the
\* largest progress parsed from the keys is strictly above the local progress
\* (no marker counts as 0), and then by the snapshot of that progress;
\* otherwise nothing is retrieved and the local file stays as it was. With a
\* local progress of 50_000 and headers-100000.dat.gz the progress becomes 100_000.
C14_RestoreIffRemoteAhead ==
    /\ pc = "di_genesis" =>
          /\ di.restored <=> RemoteAhead
          /\ RemoteAhead =>
                \E e \in remote[di.prefix] :
                    e.progress = SetMax(ListedProgresses) /\ LocalDb = e.image
          /\ ~RemoteAhead => (~di.retrieved /\ LocalDb = di.before)
    /\ (/\ pc = "di_ok"
        /\ di.prefix = "headers"
        /\ EntryProgress = ExampleLocal
        /\ ListedProgresses = {ExampleRemote}) => LocalProgress = ExampleRemote

\* the example: a headers database at 50_000 restored from the snapshot at 100_000
C14_Witness ==
    /\ pc = "di_ok"
    /\ di.prefix = "headers"
    /\ di.restored
    /\ EntryProgress = ExampleLocal
    /\ ExampleRemote \in ListedProgresses
    /\ LocalProgress = ExampleRemote

\* C15: when the first row of CanonicalHeaders holds a hash other than the
\* genesis hash of the chain spec, ensure_genesis fails with
\* GenesisHashMismatch{expected: genesis hash, actual: the hash found}, writes
\* nothing, and init returns the error.
C15_GenesisMismatchFatal ==
    [][(/\ pc = "di_genesis"
        /\ di.prefix = "headers"
        /\ FirstCanonical(headersDb, base) \notin {None, GenesisHash})
       => (/\ pc' = "err"
           /\ err'.error = "GenesisHashMismatch"
           /\ di'.mismatch = [expected |-> GenesisHash,
                              actual |-> FirstCanonical(headersDb, base)]
           /\ headersDb' = headersDb)]_vars

\* init failed on a headers database of another chain
C15_Witness ==
    /\ pc = "err"
    /\ err.error = "GenesisHashMismatch"
    /\ di.mismatch = [expected |-> GenesisHash, actual |-> ForeignHash]
    /\ FirstCanonical(headersDb, base) = ForeignHash

\* the database of descriptor d holds what ensure_genesis writes
ContainsGenesis(d) ==
    CASE d = "headers" -> FirstCanonical(headersDb, base) = GenesisHash
      [] d = "bodies" -> base > 0 \/ 0 \in DOMAIN bodiesDb.bodies
      [] d = "state" -> stateDb.accounts # "absent"

\* C16: ensure_genesis on a database that already contains genesis, at any
\* progress, restored from a snapshot or not, leaves the database as it was,
\* for the headers, the bodies and the state descriptor.
C16_GenesisWrittenOnce ==
    [][(pc = "di_genesis" /\ ContainsGenesis(di.prefix))
       => (headersDb' = headersDb /\ bodiesDb' = bodiesDb /\ stateDb' = stateDb)]_vars

\* a second start whose ensure_genesis found the genesis of the first one and
\* a marker that had not advanced
C16_Witness ==
    /\ runs = 2
    /\ pc = "di_ok"
    /\ ~di.restored
    /\ ContainsGenesis(di.prefix)
    /\ LocalDb.stage = None
    /\ LocalDb = di.before

\* ------------------------------------------------ snapshot cadence
\* the ends of the state sub-ranges this run has completed
SubRangeEnds == {hist.ranges[i].to : i \in 1..Len(hist.ranges)}

\* C21: after a state sub-range ending at `until` completes, the state snapshot
\* keyed by `until` is uploaded exactly when until < tip.number, or
\* until = tip.number and until is a multiple of the interval; from progress 0
\* with tip.number = 150000 the only state snapshot is the one at 100000.
C21_StateSnapshotRule ==
    pc = "ok" =>
      /\ StateUploads = {u \in SubRangeEnds :
                            \/ u < tip.number
                            \/ (u = tip.number /\ u % snapshot_interval = 0)}
      /\ (hist.start.state = 0
            /\ tip.number = snapshot_interval + snapshot_interval \div 2)
           => StateUploads = {snapshot_interval}

\* the run from 0 to 150000 has returned Ok: two sub-ranges, one upload
C21_Witness ==
    /\ pc = "ok"
    /\ hist.start.state = 0
    /\ tip.number = snapshot_interval + snapshot_interval \div 2
    /\ SubRangeEnds = {snapshot_interval, tip.number}
    /\ RemoteKeys("state") = {snapshot_interval}

\* the multiples of the snapshot interval in lo+1..hi
BoundariesBetween(lo, hi) ==
    {k * snapshot_interval : k \in 1..(MaxHalves + 1)} \cap ((lo + 1)..hi)

\* C22: in a run that returns Ok from state progress p0, the state progress
\* stops at every multiple m of the interval with p0 < m <= tip.number and a
\* state snapshot keyed by m is uploaded, whatever p0 is (p0 + 1 a multiple of
\* the interval included).
C22_EveryBoundarySnapshotted ==
    pc = "ok" =>
      \A m \in BoundariesBetween(hist.start.state, tip.number) :
          m \in SubRangeEnds /\ m \in StateUploads

\* C23: whenever a snapshot is uploaded under the key of prefix and N (headers,
\* bodies or state), N is the progress marker committed in the database file
\* that is uploaded, so a database restored from that key reports progress N.
C23_KeyIsCommittedMarker ==
    [][(pc = "snap_save" /\ pc' # "err" /\ runs' = runs)
       => \E e \in remote'[snap.prefix] :
             /\ e.progress = snap.progress
             /\ e.image = ImageOf(snap.prefix)
             /\ UnwrapOrDefault(e.image.stage) = e.progress]_vars

\* a headers snapshot and a state snapshot were uploaded in this run and lie
\* in the store with the marker of their key
C23_Witness ==
    /\ \E u \in hist.uploads : u[1] = "headers"
    /\ \E e \in remote["state"] :
          /\ <<"state", e.progress>> \in hist.uploads
          /\ e.image.stage = e.progress
          /\ e.progress = snapshot_interval

\* ------------------------------------------------ plain state properties
\* C24: after any sequence of changesets applied by apply_state_changes
\* (storage wiped or updated entry by entry, any old and new values),
\* PlainStorageState holds no row whose value is zero, given it held none before.
C24_NoZeroStorageRows ==
    \A r \in plain.storage : r.value # 0

\* a changeset that set a slot to zero and another to a non-zero value was
\* applied to an account whose storage was not wiped, and rows remain
C24_Witness ==
    /\ plain.op = "update"
    /\ plain.zeroed
    /\ plain.storage # {}

\* C25: applying Changed{new} or Created{new} at block b sets
\* PlainAccountState[address] = new, except that for both variants nothing is
\* written when Spurious Dragon is active at b (from its activation block on)
\* and new is empty.
C25_EmptyAccountsSkipped ==
    [][(plain'.op = "block" /\ plain'.last.kind \in {"Changed", "Created"})
       => IF SpuriousDragonActive(plain.block) /\ IsEmpty(plain'.last.new)
          THEN plain'.accounts = plain.accounts
          ELSE \E address \in Addresses :
                  plain'.accounts = AccountPut(plain.accounts, address, plain'.last.new)]_vars

\* ------------------------------------------------ execution properties
\* C26: when the Transactions table lacks an id i that the body range of a
\* block requires, StateSync::run over that block fails with
\* TransactionsGap{missing: i} and commits no state change.
C26_GapReportsMissingId ==
    [][(pc = "st_run" /\ pc' = "err" /\ err'.error = "ProviderError::TransactionsGap")
       => (/\ err'.at \notin bodiesDb.transactions
           /\ stateDb' = stateDb)]_vars

\* C27: for every block n that StateSync::run executes (any start of the range
\* from 1 on, any number of chunks), the total difficulty given to the executor
\* is the sum of the header difficulties of the blocks 0..n: the seed is the
\* sum over 0..from-1 and each block's difficulty is added once.
C27_TotalDifficultyIsSumThroughBlock ==
    [][pc = "st_run"
       => \A i \in (Len(stateDb.applied) + 1)..Len(stateDb'.applied) :
             stateDb'.applied[i].td = TdOf(base, stateDb'.applied[i].number)]_vars

\* ------------------------------------------------ restore properties
\* C28: a listed key without a parseable progress is skipped: the initializer
\* goes on and chooses the best snapshot among the well-formed keys.
C28_MalformedKeySkipped ==
    [][(pc = "di_pick" /\ None \in di.snapshots)
       => (/\ pc' \in {"di_retrieve", "di_genesis"}
           /\ di'.best = BestSnapshot(di.snapshots \ {None}, di.progress))]_vars

\* C29: wherever a snapshot restore is interrupted while it replaces the local
\* database file, the file on disk is the complete old one or the complete new
\* one, never a truncated or partly written one.
C29_ReplaceIsAtomic ==
    di.file # "truncated"

\* ------------------------------------------------ suspension points
\* the positions at which the orchestrator awaits a downloader or the remote store
SuspensionPoints == {"hdr_check", "bod_loop", "snap_save", "snap_list", "snap_delete"}

C31_EmptyOrClosedStreamIsFatal ==
    [][(\/ HeadersEmptyBatch
        \/ HeadersChannelClosed
        \/ BodiesEmptyBatch
        \/ BodiesChannelClosed)
       => (pc' = "err" /\ err'.error = "channel closed")]_vars

\* ------------------------------------------------ remote store properties
\* C32: retrieve(key) returns None when the store says the key does not exist,
\* the decompressed bytes when it exists, and an error on every other failure.
C32_RetrieveOutcomes ==
    bucket.last.op = "retrieve" =>
      LET call == bucket.last
          objects == bucket.objects
      IN  /\ (call.fault = "none" /\ call.key \notin DOMAIN objects)
                => call.result = ResultNone
          /\ (call.fault = "none" /\ call.key \in DOMAIN objects /\ objects[call.key].gz)
                => call.result = ResultSome(Gunzip(objects[call.key]).value)
          /\ call.fault # "none" => call.result = ResultErr

\* ------------------------------------------------ sub-range arithmetic
\* C33: in the orchestrator's state loop every computed sub-range satisfies
\* from <= until <= tip.number (also when from is a multiple of the interval),
\* consecutive sub-ranges are adjacent, the first starts at p0 + 1, and when
\* the loop has ended the sub-ranges partition [p0 + 1, tip.number].
C33_SubRangesPartition ==
    LET n == Len(hist.ranges)
        p0 == hist.start.state
    IN  /\ pc \in {"st_run", "snap_save"} =>
              (orch.sync_until >= p0 + 1 /\ orch.sync_until <= tip.number)
        /\ pc = "st_run" => orch.sync_from <= orch.sync_until
        /\ \A i \in 1..n :
              /\ hist.ranges[i].from <= hist.ranges[i].to
              /\ hist.ranges[i].to <= tip.number
              /\ hist.ranges[i].from = IF i = 1 THEN p0 + 1 ELSE hist.ranges[i - 1].to + 1
        /\ pc = "ok" =>
              IF p0 + 1 <= tip.number
              THEN n >= 1 /\ hist.ranges[n].to = tip.number
              ELSE n = 0

\* the run from 99999 (first sub-range starting on the boundary 100000) to a tip
\* beyond 200000 has returned Ok after two sub-ranges
C33_Witness ==
    /\ pc = "ok"
    /\ hist.start.state = snapshot_interval - 1
    /\ tip.number > 2 * snapshot_interval
    /\ Len(hist.ranges) = 2
    /\ hist.ranges[1] = [from |-> snapshot_interval, to |-> 2 * snapshot_interval,
                         progress |-> snapshot_interval - 1]
    /\ hist.ranges[2].from = 2 * snapshot_interval + 1
    /\ hist.ranges[2].to = tip.number

\* ------------------------------------------------ headers progress
\* C34: HeadersSync::run saves the HEADERS progress marker with each committed
\* header batch: after the commit of a batch the marker is the number of a
\* header of that batch.
C34_MarkerSavedWithBatch ==
    [][(pc = "hdr_check" /\ pc' = "hdr_gap"
          /\ DOMAIN headersDb'.headers # DOMAIN headersDb.headers)
        => headersDb'.stage \in (DOMAIN headersDb'.headers \ DOMAIN headersDb.headers)]_vars

\* ------------------------------------------------ failed retrieval
\* C35: when retrieving the chosen snapshot fails or reports not-found (the
\* local handle is closed by then), DatabaseInitializer::init returns an error,
\* not a panic and not a database, and the local database file is what it was
\* before init.
C35_FailedRetrieveIsAnError ==
    [][(pc = "di_retrieve" /\ pc' # "di_write")
        => /\ pc' = "err"
           /\ err'.error = "Remote"
           /\ di'.file = di.file
           /\ UNCHANGED <<headersDb, bodiesDb, stateDb>>]_vars

\* ------------------------------------------------ writers of StateSync
\* C36: StateSync never holds a write transaction on the headers or bodies
\* environment: the only environment it begins a write transaction on is the
\* state environment.
C36_StateWritesStateOnly ==
    ss.writers \subseteq {"state"}

\* ------------------------------------------------ default tables
\* C37: every table a descriptor reads belongs to the default table set of its
\* environment: reading the progress of a database just opened by the
\* initializer (the bodies database on an empty directory included) succeeds
\* without a missing-table error.
C37_ProgressTableExists ==
    [][pc = "di_progress" => (pc' = "di_list" /\ err' = NoErr)]_vars

\* ------------------------------------------------ one row per slot
\* C38: after any sequence of storage changesets in which each entry's old
\* value is the value stored for the slot when it is applied, PlainStorageState
\* holds at most one row per (address, storage key), and the row carries the
\* latest non-zero new value of the slot.
C38_OneRowPerSlot ==
    plain.matched =>
        /\ \A r1 \in plain.storage, r2 \in plain.storage :
              (r1.address = r2.address /\ r1.key = r2.key) => r1 = r2
        /\ plain.storage = plain.latest

\* a changeset with matching old values replaced a non-zero value of a slot by
\* another non-zero value
C38_Witness ==
    /\ plain.matched
    /\ plain.op = "update"
    /\ plain.overwrote
    /\ plain.storage # {}

\* ------------------------------------------------ snapshot replacement
\* C39: save_single_snapshot saves the new snapshot before it deletes any older
\* key and deletes nothing when the save fails: a key is only deleted under the
\* prefix being saved while the key just saved is there and stays there, so a
\* prefix that holds a snapshot holds one after every step, and the keys of the
\* other prefixes are never deleted.
C39_SaveBeforeDelete ==
    [][\A prefix \in {"headers", "bodies", "state"} :
          LET before == {e.progress : e \in remote[prefix]}
              after == {e.progress : e \in remote'[prefix]}
          IN  /\ before # {} => after # {}
              /\ before \ after # {} =>
                    /\ pc = "snap_delete"
                    /\ prefix = snap.prefix
                    /\ <<snap.prefix, snap.progress>> \in hist.uploads
                    /\ snap.progress \in before
                    /\ snap.progress \in after]_vars

\* the clean-up after the upload of a headers snapshot has deleted the older
\* headers key; the new key is the only one and the bodies key is still there
C39_Witness ==
    /\ pc = "snap_delete"
    /\ snap.prefix = "headers"
    /\ snap.listing = {}
    /\ RemoteKeys("headers") = {snap.progress}
    /\ snap.progress # base
    /\ RemoteKeys("bodies") = {base}

\* ------------------------------------------------ ordering after init
\* DatabaseInitializer::init on a local database whose marker is `progress`:
\* the marker of the database it returns (the restored snapshot's marker when
\* the best remote snapshot is ahead, the local one otherwise)
RestoredProgress(prefix, progress) ==
    LET best_snapshot == BestSnapshot(RemoteKeys(prefix), progress)
    IN  IF best_snapshot = None THEN progress
        ELSE UnwrapOrDefault(
                 (CHOOSE e \in remote[prefix] : e.progress = best_snapshot).image.stage)

\* C40: after the three databases have each been initialized by
\* DatabaseInitializer from the snapshots the orchestrator's runs have uploaded
\* so far, headers progress >= bodies progress >= state progress, for all local
\* databases for which the ordering held. Stated for the snapshots of a first
\* run that started with ordered databases.
C40_InitKeepsOrdering ==
    \A h \in Window(base), b \in Window(base), s \in Window(base) :
        (runs = 1 /\ StartOrdered /\ h >= b /\ b >= s) =>
            /\ RestoredProgress("headers", h) >= RestoredProgress("bodies", b)
            /\ RestoredProgress("bodies", b) >= RestoredProgress("state", s)

====
